---- MODULE Spec2Model ----
(***************************************************************************)
(* A model of the streaming chat backend (src/backend/src/main.py and      *)
(* src/backend/src/agents/azure_troubleshoot_agent.py) and of the gateway   *)
(* in front of it (src/app.py).                                             *)
(*                                                                         *)
(* Backend: startup_event builds the process-wide agent; every POST        *)
(* /chat/stream is one request r that runs chat_stream and then, pulled by *)
(* the response writer, the async generators generate and                  *)
(* process_message_stream.  Requests interleave at the suspension points   *)
(* of those generators (every yield, every await on the upstream), so one  *)
(* action of the model is the code between two suspension points.          *)
(*                                                                         *)
(* The language-model service is an external collaborator: in chat mode it *)
(* is the lazy sequence returned by invoke_stream, whose items carry a     *)
(* content (possibly empty) and possibly a thread; the item that ends a    *)
(* successful run carries the updated thread (the thread it was given plus *)
(* the request's message).  In agent mode it is the Foundry run and the    *)
(* message list read back from the provider thread.                        *)
(***************************************************************************)
EXTENDS Integers, Sequences, FiniteSets, TLC

\* ------------------------------------------------------------------ bounds
\* Requests the backend receives in one run of the process.
MaxRequests == 2
\* Items one request pulls from the upstream sequence.
MaxDeltas == 2
\* Requests the gateway forwards, and content chunks of one backend response.
MaxProxied == 2
MaxChunks == 2
\* Requests the gateway's middleware answers, and signals the process receives.
MaxHandled == 2
MaxSignals == 1
\* Frames each peer of one WebSocket relay sends.
MaxFrames == 2
MaxCalls == 2
MaxSize == 11
MaxRecorded == 6
MaxOperations == 4
MaxLines == 3

\* ------------------------------------------------------------------ values
None == "<None>"
\* Session ids a client sends on its own: the empty string and a chosen id.
ClientIds == {"", "s1"}
\* uuid.uuid4(): the n-th call returns the n-th element, never an earlier one.
UuidPool == <<"u1", "u2", "u3", "u4">>
Modes == {"chat", "agent", "bogus"}
Requests == 1..MaxRequests

\* The k-th item of an upstream sequence has an empty content or the k-th delta.
DeltaPool == <<"a", "b", "c", "d">>
DeltaChoices(k) == {"", DeltaPool[k]}

\* Exceptions as the handlers see them: the class, and which keyword families
\* str(e).lower() contains.
Exceptions == [cls : {"ConnectionError", "Exception"}, conn : BOOLEAN, agentkw : BOOLEAN]

\* ------------------------------------------------------------------ paths
\* Request paths are sequences of characters, so that str.startswith is the
\* prefix relation it is in the code.
StartsWith(path, prefix) ==
    Len(path) >= Len(prefix) /\ SubSeq(path, 1, Len(prefix)) = prefix

API_PREFIX == <<"/", "a", "p", "i", "/">>
HEALTH_PREFIX == <<"/", "h", "e", "a", "l", "t", "h">>
DOCS_PREFIX == <<"/", "d", "o", "c", "s">>
OPENAPI_PREFIX == <<"/", "o", "p", "e", "n", "a", "p", "i", ".", "j", "s", "o", "n">>
TEST_PREFIX == <<"/", "t", "e", "s", "t", "-">>
CHAT_STREAM == <<"/", "c", "h", "a", "t", "/", "s", "t", "r", "e", "a", "m">>
WS_PREFIX == <<"/", "w", "s">>
CHAT_WS_PREFIX == <<"/", "c", "h", "a", "t", "/", "w", "s">>

\* The paths of the requests the model sends: at least one under every test
\* of dispatch, and two that differ from a literal of the code by one
\* character.
PATH_API_HEALTH == <<"/", "a", "p", "i", "/", "h", "e", "a", "l", "t", "h">>
PATH_HEALTHZ == <<"/", "h", "e", "a", "l", "t", "h", "z">>
PATH_TEST_PROXY == <<"/", "t", "e", "s", "t", "-", "p", "r", "o", "x", "y">>
PATH_CHAT_STREAM_SLASH == <<"/", "c", "h", "a", "t", "/", "s", "t", "r", "e", "a", "m", "/">>
PATH_WS_A == <<"/", "w", "s", "/", "a">>
PATH_ROOT == <<"/">>

\* Values of the request's Upgrade header ("" when there is none).
Upgrades == {"", "WebSocket", "h2c"}
Lower(u) == IF u = "WebSocket" THEN "websocket" ELSE u

\* The (path, Upgrade header) pairs of the requests the model sends.
DispatchInputs ==
    {<<p, "">> : p \in {PATH_API_HEALTH, HEALTH_PREFIX, PATH_HEALTHZ, DOCS_PREFIX,
                        OPENAPI_PREFIX, PATH_TEST_PROXY, CHAT_STREAM,
                        PATH_CHAT_STREAM_SLASH, PATH_WS_A, CHAT_WS_PREFIX, PATH_ROOT}}
    \cup {<<p, u>> : p \in {CHAT_STREAM, PATH_ROOT}, u \in Upgrades}

VARIABLES
    USE_AZURE_AI_AGENT,     \* the environment flag, read at startup and per request
    phase,                  \* "booting" until startup_event has returned, then "serving"
    init_result,            \* how startup_event ended
    agent,                  \* main.py global: FALSE is None
    ai_service,             \* agent.ai_service is set
    simple_ai_assistant,    \* agent.simple_ai_assistant is set
    has_foundry_agent,      \* "unset" (no such attribute), "True" or "False"
    sessions,               \* agent.sessions: session id -> Thread
    uuid_count,             \* calls of uuid.uuid4() so far
    pc,                     \* per request: where its generators are suspended
    request,                \* per request: the ChatRequest body
    session_id,             \* per request: process_message_stream's session_id
    thread,                 \* per request: process_message_stream's thread
    handed,                 \* per request: the thread given to the upstream
    pulled,                 \* per request: the items pulled from the upstream
    frames,                 \* per request: the frames written to the client
    status,                 \* per request: HTTP status of the response (0: none yet)
    seen,                   \* per request: the request whose store sessions.get returned (0: none)
    writer,                 \* per stored session id: the request that stored it
    enable_trace,           \* per request: the ChatRequest's enable_trace
    made,                   \* per request: function calls the Foundry run made
    raised,                 \* per request: the exception the upstream raised (None: none)
    disconnected,           \* per request: the client went away during the stream
    \* the gateway's POST /chat/stream (src/app.py), per gateway request
    gw_pc,                  \* "idle", "connected", "streaming" or "done"
    gw_backend,             \* what the backend does with the forwarded request
    gw_upstream_open,       \* the httpx response of client.stream is open
    gw_status,              \* HTTP status the client gets (0: none yet)
    gw_body,                \* the chunks the client has received
    \* the unified application and its ChainlitManager (src/app.py)
    process,                \* chainlit_manager.process: "None" or "Popen"
    is_running,             \* chainlit_manager.is_running
    chainlit,               \* the UI subprocess itself: "absent", "alive" or "exited"
    lifespan,               \* where lifespan is: "startup", "starting", "grace",
                            \* "yielded" or "closed"
    start_failed,           \* start_chainlit has raised into lifespan's handler
    main,                   \* the process: "run", "interrupted" or "exited"
    stopping,               \* the callers of stop_chainlit that are inside process.wait
    terminates,             \* calls of process.terminate() so far
    kills,                  \* calls of process.kill() so far
    signals,                \* signals delivered so far
    handled,                \* the responses of ProxyMiddleware.dispatch, in order
    \* one WebSocket connection through websocket_proxy or chat_websocket_proxy
    ws_endpoint,            \* "" until the client connects, then the route
    ws_pc,                  \* the handler: "idle", "accepted", "relaying" or "returned"
    ws_close,               \* close code the handler has sent to the client (0: none)
    ws_client_gone,         \* the client has disconnected
    chainlit_ws,            \* the socket to the UI process: "none", "open",
                            \* "closed_ok" or "closed_error"
    to_chainlit,            \* forward_to_chainlit: "none", "receive", "send", "done", "raised"
    from_chainlit,          \* forward_from_chainlit: "none", "next", "send", "done", "raised"
    data,                   \* the frame forward_to_chainlit holds (0: none)
    message,                \* the frame forward_from_chainlit holds (0: none)
    client_sent,            \* frames the client has sent and the handler has not received
    chainlit_sent,          \* frames the UI process has sent and the handler has not received
    client_count,           \* number of frames the client has sent
    chainlit_count,         \* number of frames the UI process has sent
    chainlit_received,      \* frames delivered to the UI process
    client_received,        \* frames delivered to the client
    \* one call of get_sample_dataset (src/eval/sample_data.py)
    domain,                 \* its domain argument
    size,                   \* its size argument
    dataset,                \* what the call did: not made, raised or returned
    \* one TraceCollector (azure_troubleshoot_agent.py:35-87) and its user
    collector,              \* the TraceCollector's operations, function_calls
                            \* and current_operation
    recorded,               \* the calls of record_function_call, in order
    completed,              \* the names of the operations completed, in order
    traced,                 \* get_current_trace has been called
    returned,               \* what get_current_trace returned
    \* one message of the UI (src/frontend/app.py): on_message and the
    \* send_message_stream generator it consumes
    om_pc,                  \* on_message: "idle", "consuming", "returned" or "failed"
    sm_pc,                  \* send_message_stream: "idle", "streaming", "ended",
                            \* "closed" or "raised"
    lines,                  \* number of lines read from the response
    yielded,                \* the chunks send_message_stream has yielded
    shown                   \* the tokens streamed to the user and the messages sent

backend_vars == <<USE_AZURE_AI_AGENT, phase, init_result, agent, ai_service,
                  simple_ai_assistant, has_foundry_agent, sessions, uuid_count,
                  pc, request, session_id, thread, handed, pulled, frames, status, seen, writer,
                  enable_trace, made, raised, disconnected>>

exchange_vars == <<enable_trace, made, raised, disconnected>>

gateway_vars == <<gw_pc, gw_backend, gw_upstream_open, gw_status, gw_body>>

manager_vars == <<process, is_running, chainlit, lifespan, start_failed, main,
                  stopping, terminates, kills, signals, handled>>

\* What the backend's actions and those of chat_stream_proxy leave alone.
ws_vars == <<ws_endpoint, ws_pc, ws_close, ws_client_gone, chainlit_ws, to_chainlit,
             from_chainlit, data, message, client_sent, chainlit_sent, client_count,
             chainlit_count, chainlit_received, client_received>>

eval_vars == <<domain, size, dataset>>

trace_vars == <<collector, recorded, completed, traced, returned>>

client_vars == <<om_pc, sm_pc, lines, yielded, shown>>

aside_vars == <<eval_vars, trace_vars, client_vars>>

front_vars == <<gateway_vars, manager_vars, ws_vars, aside_vars>>

vars == <<backend_vars, gateway_vars, manager_vars, ws_vars, aside_vars>>

\* ------------------------------------------------------------------ helpers
Last(s) == s[Len(s)]

\* The ids uuid.uuid4() has returned so far.
Issued == {UuidPool[i] : i \in 1..uuid_count}

\* azure_troubleshoot_agent.py:497-498: only an absent id is replaced.
ResolveSessionId(sid) == IF sid = None THEN UuidPool[uuid_count + 1] ELSE sid

\* GetThread that never finds the session.
GetThreadAlwaysNew(store, sid) == <<>>

\* GetThread that falls back to some stored thread when the id is unknown.
GetThreadShared(store, sid) ==
    IF sid \in DOMAIN store THEN store[sid]
    ELSE IF DOMAIN store # {} THEN store[CHOOSE k \in DOMAIN store : TRUE]
    ELSE <<>>

\* azure_troubleshoot_agent.py:511-513: sessions.get, a new empty thread if absent.
GetThread(store, sid) == IF sid \in DOMAIN store THEN store[sid] ELSE <<>>

\* azure_troubleshoot_agent.py:700: self.sessions[session_id] = thread.
PutThread(store, sid, t) == [k \in DOMAIN store \cup {sid} |-> IF k = sid THEN t ELSE store[k]]

\* The message of request r as the upstream records it in a thread.
Message(r) == [from |-> r]

\* The thread the upstream returns for request r: the one it was given plus
\* the request's message.
UpdatedThread(r) == Append(handed[r], Message(r))

\* The dict of a frame with is_done False (azure_troubleshoot_agent.py:616-621, 666-671).
ContentFrame(content, sid, mode) ==
    [content |-> content, session_id |-> sid, is_done |-> FALSE, mode |-> mode]

\* The dict of an error frame (azure_troubleshoot_agent.py:542-547 and the like).
ErrorFrame(content, sid, mode) ==
    [content |-> content, session_id |-> sid, is_done |-> TRUE, mode |-> mode]

\* completion_data with a text in its content.
completion_data_with_text(sid, mode) ==
    [content |-> "done", session_id |-> sid, is_done |-> TRUE, mode |-> mode]

\* azure_troubleshoot_agent.py:706-711: completion_data.
completion_data(sid, mode) ==
    [content |-> "", session_id |-> sid, is_done |-> TRUE, mode |-> mode]

\* main.py:169-173: generate overwrites the chunk's mode and serialises it.
Wire(chunk, req) == [chunk EXCEPT !.mode = req.mode]

\* azure_troubleshoot_agent.py:721-743: the diagnostic of the outer handlers.
Classify(e, mode) ==
    IF e.cls = "ConnectionError" THEN "connection_error_private_endpoint"
    ELSE IF e.conn THEN "connection_error"
    ELSE IF mode = "agent" /\ e.agentkw THEN "agent_mode_error"
    ELSE "generic_error"

\* main.py:180-186: the diagnostic of generate's handler.
ClassifyGenerate(e, mode) ==
    IF e.conn THEN "connection_error"
    ELSE IF mode = "agent" /\ e.agentkw THEN "agent_mode_error"
    ELSE "generic_error"

\* GenerateErrorFrame that leaves mode to StreamChatResponse's default.
GenerateErrorFrame_default_mode(e, req) ==
    [content |-> ClassifyGenerate(e, req.mode),
     session_id |-> IF req.session_id \in {None, ""} THEN "error" ELSE req.session_id,
     is_done |-> TRUE,
     mode |-> "chat"]

\* main.py:188-193: the frame generate builds when the agent's generator raised.
GenerateErrorFrame(e, req) ==
    [content |-> ClassifyGenerate(e, req.mode),
     session_id |-> IF req.session_id \in {None, ""} THEN "error" ELSE req.session_id,
     is_done |-> TRUE,
     mode |-> req.mode]

\* The gateway's requests, and the answers the backend can give one: it
\* cannot be reached, or it answers with a status and, for 200, with an event
\* stream of content chunks closed by a terminal chunk.
Proxied == 1..MaxProxied
Chunk(content, done) == [content |-> content, is_done |-> done]
RECURSIVE ContentChunks(_)
ContentChunks(n) ==
    IF n = 0 THEN {<<>>}
    ELSE ContentChunks(n - 1) \cup
         {Append(c, Chunk(x, FALSE)) : c \in {d \in ContentChunks(n - 1) : Len(d) = n - 1},
                                      x \in {"a", "b"}}
BackendStreams == {Append(c, Chunk("", TRUE)) : c \in ContentChunks(MaxChunks)}
BackendAnswers ==
    {[reach |-> "refused", status |-> 0, chunks |-> <<>>],
     [reach |-> "timeout", status |-> 0, chunks |-> <<>>],
     [reach |-> "ok", status |-> 500, chunks |-> <<>>]}
    \cup {[reach |-> "ok", status |-> 200, chunks |-> c] : c \in BackendStreams}
NoBackend == [reach |-> "none", status |-> 0, chunks |-> <<>>]

\* No exception has been raised.
NotRaised == [cls |-> "none", conn |-> FALSE, agentkw |-> FALSE]

\* The None of current_operation, and the None get_current_trace returns.
NoOperation == [name |-> None, completed |-> FALSE]
NoTrace == [k \in {None} |-> None]

\* azure_troubleshoot_agent.py:38-41: a new TraceCollector.
TraceCollector ==
    [operations |-> <<>>, function_calls |-> <<>>, current_operation |-> NoOperation]

\* azure_troubleshoot_agent.py:43-50: start_operation; the operation in
\* progress, if there is one, is replaced.
start_operation(c, operation_name) ==
    [c EXCEPT !.current_operation = [name |-> operation_name, completed |-> FALSE]]

\* azure_troubleshoot_agent.py:52-61: complete_operation; nothing happens
\* unless the operation in progress has this name.
complete_operation(c, operation_name) ==
    IF c.current_operation # NoOperation /\ c.current_operation.name = operation_name
    THEN [c EXCEPT !.operations = Append(@, [c.current_operation EXCEPT !.completed = TRUE]),
                   !.current_operation = NoOperation]
    ELSE c

\* azure_troubleshoot_agent.py:63-70: record_function_call.
record_function_call(c, function_name, arguments) ==
    [c EXCEPT !.function_calls = Append(@, [function |-> function_name,
                                            arguments |-> arguments])]

\* s[-n:]
LastN(s, n) == IF Len(s) <= n THEN s ELSE SubSeq(s, Len(s) - n + 1, Len(s))

\* get_sample_dataset has not been called.
NotCalled == [raised |-> "", queries |-> <<>>, ground_truths |-> <<>>, contexts |-> <<>>]

NoRequest == [message |-> 0, session_id |-> None, mode |-> "chat"]

InFlight(r) == pc[r] \in {"chat_stream", "agent_stream"}
Done(r) == pc[r] \in {"done_ok", "done_err", "done_http_error"}

\* ------------------------------------------------------------------ initial state
ProgramInit ==
    /\ USE_AZURE_AI_AGENT \in BOOLEAN
    /\ phase = "booting"
    /\ init_result = "pending"
    /\ agent = FALSE
    /\ ai_service = FALSE
    /\ simple_ai_assistant = FALSE
    /\ has_foundry_agent = "unset"
    /\ sessions = <<>>
    /\ writer = <<>>
    /\ uuid_count = 0
    /\ pc = [r \in Requests |-> "idle"]
    /\ request = [r \in Requests |-> NoRequest]
    /\ session_id = [r \in Requests |-> None]
    /\ thread = [r \in Requests |-> <<>>]
    /\ handed = [r \in Requests |-> <<>>]
    /\ pulled = [r \in Requests |-> <<>>]
    /\ frames = [r \in Requests |-> <<>>]
    /\ status = [r \in Requests |-> 0]
    /\ seen = [r \in Requests |-> 0]
    /\ enable_trace = [r \in Requests |-> FALSE]
    /\ made = [r \in Requests |-> 0]
    /\ raised = [r \in Requests |-> NotRaised]
    /\ disconnected = [r \in Requests |-> FALSE]
    /\ gw_pc = [g \in Proxied |-> "idle"]
    /\ gw_backend = [g \in Proxied |-> NoBackend]
    /\ gw_upstream_open = [g \in Proxied |-> FALSE]
    /\ gw_status = [g \in Proxied |-> 0]
    /\ gw_body = [g \in Proxied |-> <<>>]
    /\ process = "None"
    /\ is_running = FALSE
    /\ chainlit = "absent"
    /\ lifespan = "startup"
    /\ start_failed = FALSE
    /\ main = "run"
    /\ stopping = <<>>
    /\ terminates = 0
    /\ kills = 0
    /\ signals = 0
    /\ handled = <<>>
    /\ ws_endpoint = ""
    /\ ws_pc = "idle"
    /\ ws_close = 0
    /\ ws_client_gone = FALSE
    /\ chainlit_ws = "none"
    /\ to_chainlit = "none"
    /\ from_chainlit = "none"
    /\ data = 0
    /\ message = 0
    /\ client_sent = <<>>
    /\ chainlit_sent = <<>>
    /\ client_count = 0
    /\ chainlit_count = 0
    /\ chainlit_received = <<>>
    /\ client_received = <<>>
    /\ collector = TraceCollector
    /\ recorded = <<>>
    /\ completed = <<>>
    /\ traced = FALSE
    /\ returned = NoTrace
    /\ om_pc = "idle"
    /\ sm_pc = "idle"
    /\ lines = 0
    /\ yielded = <<>>
    /\ shown = <<>>

\* src/eval/sample_data.py:89: the defaults of domain and size.
Init ==
    /\ ProgramInit
    /\ domain = "technology"
    /\ size = 10
    /\ dataset = NotCalled

\* ------------------------------------------------------------------ startup
\* main.py:93-131 with AzureTroubleshootAgent.initialize (131-235).
\*   missing: a required environment variable is not set (main.py:102-107);
\*   fault: where initialize raises, if it does;
\*   foundry_ok: the Foundry agent definition could be fetched (168-194).
startup_event(missing, fault, foundry_ok) ==
    /\ phase = "booting"
    /\ phase' = "serving"
    /\ IF missing
       THEN /\ init_result' = "missing_vars"
            /\ UNCHANGED <<agent, ai_service, simple_ai_assistant, has_foundry_agent>>
       ELSE /\ agent' = TRUE
            /\ IF fault \in {"credentials", "connection"}
               THEN /\ init_result' = IF fault = "credentials" THEN "ValueError"
                                      ELSE "ConnectionError"
                    /\ UNCHANGED <<ai_service, simple_ai_assistant, has_foundry_agent>>
               ELSE LET foundry == USE_AZURE_AI_AGENT /\ foundry_ok
                    IN  /\ ai_service' = TRUE
                        /\ has_foundry_agent' =
                              IF USE_AZURE_AI_AGENT
                              THEN (IF foundry_ok THEN "True" ELSE "False")
                              ELSE "unset"
                        /\ simple_ai_assistant' = (~foundry /\ fault # "assistant")
                        /\ init_result' = IF ~foundry /\ fault = "assistant"
                                          THEN "Exception" ELSE "ok"
    /\ UNCHANGED <<USE_AZURE_AI_AGENT, sessions, writer, uuid_count, pc, request,
                   session_id, thread, handed, pulled, frames, status, seen>>

\* ------------------------------------------------------------------ a request
\* main.py:149-157 and 196-203: chat_stream up to the return of the response.
chat_stream(r, sid_in, mode) ==
    /\ phase = "serving"
    /\ pc[r] = "idle"
    /\ \A q \in Requests : q < r => pc[q] # "idle"
    /\ request' = [request EXCEPT ![r] = [message |-> r, session_id |-> sid_in, mode |-> mode]]
    /\ IF ~agent
       THEN /\ status' = [status EXCEPT ![r] = 500]
            /\ pc' = [pc EXCEPT ![r] = "done_http_error"]
       ELSE /\ status' = [status EXCEPT ![r] = 200]
            /\ pc' = [pc EXCEPT ![r] = "accepted"]
    /\ UNCHANGED <<USE_AZURE_AI_AGENT, phase, init_result, agent, ai_service,
                   simple_ai_assistant, has_foundry_agent, sessions, writer, uuid_count,
                   session_id, thread, handed, pulled, frames, seen>>

\* EndWith without the yield: the request ends and no frame is written.
EndWithoutFrame(r, frame) ==
    /\ frames' = frames
    /\ pc' = [pc EXCEPT ![r] = "done_err"]

\* The request ends with one frame and nothing stored.
EndWith(r, frame) ==
    /\ frames' = [frames EXCEPT ![r] = Append(@, frame)]
    /\ pc' = [pc EXCEPT ![r] = "done_err"]

\* AgentBranch without the test of the flag at 519-520.
AgentBranch_flagless(r, sid, run) ==
    LET req == request[r]
        fail(content) == EndWith(r, Wire(ErrorFrame(content, sid, req.mode), req))
    IN  /\ UNCHANGED <<simple_ai_assistant, handed>>
        /\ IF has_foundry_agent # "True" THEN fail("agent_not_initialized")
           ELSE IF run = "exception" THEN fail("agent_communication_error")
           ELSE IF run = "failed" THEN fail("agent_run_failed")
           ELSE /\ pc' = [pc EXCEPT ![r] = "agent_stream"]
                /\ UNCHANGED frames

\* azure_troubleshoot_agent.py:516-632: the agent branch up to its first yield.
\*   run: what the Foundry run did ("exception", "failed" or "completed").
AgentBranch(r, sid, run) ==
    LET req == request[r]
        fail(content) == EndWith(r, Wire(ErrorFrame(content, sid, req.mode), req))
    IN  /\ UNCHANGED <<simple_ai_assistant, handed>>
        /\ IF ~USE_AZURE_AI_AGENT THEN fail("agent_disabled")
           ELSE IF has_foundry_agent # "True" THEN fail("agent_not_initialized")
           ELSE IF run = "exception" THEN fail("agent_communication_error")
           ELSE IF run = "failed" THEN fail("agent_run_failed")
           ELSE /\ pc' = [pc EXCEPT ![r] = "agent_stream"]
                /\ UNCHANGED frames

\* azure_troubleshoot_agent.py:634-663: the chat branch up to invoke_stream.
\*   ctor: the exception ChatCompletionAgent(...) raises, if it raises.
ChatBranch(r, sid, t, ctor_raises, e) ==
    LET req == request[r]
    IN  IF ~simple_ai_assistant /\ ~ai_service
        THEN /\ EndWith(r, Wire(ErrorFrame("chat_not_initialized", sid, req.mode), req))
             /\ UNCHANGED <<simple_ai_assistant, handed>>
        ELSE IF ~simple_ai_assistant /\ ctor_raises
        THEN /\ EndWith(r, Wire(ErrorFrame(Classify(e, req.mode), sid, req.mode), req))
             /\ UNCHANGED <<simple_ai_assistant, handed>>
        ELSE /\ simple_ai_assistant' = TRUE
             /\ handed' = [handed EXCEPT ![r] = t]
             /\ pc' = [pc EXCEPT ![r] = "chat_stream"]
             /\ UNCHANGED frames

\* azure_troubleshoot_agent.py:686-696: neither "agent" nor "chat".
InvalidMode(r, sid) ==
    /\ EndWith(r, Wire(ErrorFrame("invalid_mode", sid, request[r].mode), request[r]))
    /\ UNCHANGED <<simple_ai_assistant, handed>>

\* azure_troubleshoot_agent.py:485-515 with main.py:159-167, 176-194: the first
\* pull on generate runs process_message_stream up to its first suspension.
\*   span_raises: the tracer calls before the try block (500-504) raise e.
process_message_stream(r, span_raises, ctor_raises, e, run) ==
    /\ pc[r] = "accepted"
    /\ LET req == request[r]
           sid == ResolveSessionId(req.session_id)
           t   == GetThread(sessions, sid)
       IN  /\ uuid_count' = IF req.session_id = None THEN uuid_count + 1 ELSE uuid_count
           /\ session_id' = [session_id EXCEPT ![r] = sid]
           /\ IF span_raises
              THEN /\ EndWith(r, GenerateErrorFrame(e, req))
                   /\ UNCHANGED <<simple_ai_assistant, handed, thread, seen>>
              ELSE /\ thread' = [thread EXCEPT ![r] = t]
                   /\ seen' = [seen EXCEPT ![r] =
                                 IF sid \in DOMAIN writer THEN writer[sid] ELSE 0]
                   /\ IF req.mode = "agent" THEN AgentBranch(r, sid, run)
                      ELSE IF req.mode = "chat" THEN ChatBranch(r, sid, t, ctor_raises, e)
                      ELSE InvalidMode(r, sid)
    /\ UNCHANGED <<USE_AZURE_AI_AGENT, phase, init_result, agent, ai_service,
                   has_foundry_agent, sessions, writer, request, pulled, status>>

\* ------------------------------------------------------------------ chat mode
\* ItemFrames yielding the frame twice.
ItemFramesTwice(r, content) ==
    IF content # ""
    THEN <<Wire(ContentFrame(content, session_id[r], request[r].mode), request[r]),
           Wire(ContentFrame(content, session_id[r], request[r].mode), request[r])>>
    ELSE <<>>

\* azure_troubleshoot_agent.py:664-671: the frames one item gives, none when
\* the item's content is empty.
ItemFrames(r, content) ==
    IF content # ""
    THEN <<Wire(ContentFrame(content, session_id[r], request[r].mode), request[r])>>
    ELSE <<>>

\* azure_troubleshoot_agent.py:663-674: one turn of the async for loop, on an
\* item with this content that has a thread attribute (the updated thread) or not.
upstream_item(r, content, has_thread) ==
    /\ pc[r] = "chat_stream"
    /\ Len(pulled[r]) < MaxDeltas
    /\ content \in DeltaChoices(Len(pulled[r]) + 1)
    /\ pulled' = [pulled EXCEPT ![r] = Append(@, [content |-> content, has_thread |-> has_thread])]
    /\ frames' = [frames EXCEPT ![r] = @ \o ItemFrames(r, content)]
    /\ thread' = [thread EXCEPT ![r] = IF has_thread THEN UpdatedThread(r) ELSE @]
    /\ UNCHANGED <<USE_AZURE_AI_AGENT, phase, init_result, agent, ai_service,
                   simple_ai_assistant, has_foundry_agent, sessions, writer, uuid_count,
                   pc, request, session_id, handed, status, seen>>

\* upstream_raises that stores the partial thread before it reports the error.
upstream_raises_storing(r) ==
    /\ pc[r] = "chat_stream"
    /\ EndWith(r, Wire(ErrorFrame("chat_error", session_id[r], request[r].mode), request[r]))
    /\ sessions' = PutThread(sessions, session_id[r], thread[r])
    /\ UNCHANGED <<USE_AZURE_AI_AGENT, phase, init_result, agent, ai_service,
                   simple_ai_assistant, has_foundry_agent, writer, uuid_count,
                   request, session_id, thread, handed, pulled, status, seen>>

\* azure_troubleshoot_agent.py:676-684: the upstream raises while it is iterated.
upstream_raises(r) ==
    /\ pc[r] = "chat_stream"
    /\ EndWith(r, Wire(ErrorFrame("chat_error", session_id[r], request[r].mode), request[r]))
    /\ UNCHANGED <<USE_AZURE_AI_AGENT, phase, init_result, agent, ai_service,
                   simple_ai_assistant, has_foundry_agent, sessions, writer, uuid_count,
                   request, session_id, thread, handed, pulled, status, seen>>

\* s[:n] for n >= 0
FirstN(s, n) == IF Len(s) <= n THEN s ELSE SubSeq(s, 1, n)

\* get_current_trace that keeps the oldest calls and operations.
get_current_trace_oldest(c) ==
    LET completed_ops == SelectSeq(c.operations, LAMBDA op : op.completed)
        keys == (IF c.function_calls # <<>> THEN {"function_calls"} ELSE {})
                \cup (IF completed_ops # <<>> THEN {"operations"} ELSE {})
                \cup (IF c.current_operation # NoOperation THEN {"current_operation"} ELSE {})
        trace_info == [k \in keys |->
                         IF k = "function_calls" THEN FirstN(c.function_calls, 5)
                         ELSE IF k = "operations" THEN FirstN(completed_ops, 3)
                         ELSE c.current_operation]
    IN  IF keys # {} THEN trace_info ELSE NoTrace

\* azure_troubleshoot_agent.py:71-86: TraceCollector.get_current_trace; the
\* dict has a key only for what was collected, and None is returned when it
\* has no key.
get_current_trace(c) ==
    LET completed_ops == SelectSeq(c.operations, LAMBDA op : op.completed)
        keys == (IF c.function_calls # <<>> THEN {"function_calls"} ELSE {})
                \cup (IF completed_ops # <<>> THEN {"operations"} ELSE {})
                \cup (IF c.current_operation # NoOperation THEN {"current_operation"} ELSE {})
        trace_info == [k \in keys |->
                         IF k = "function_calls" THEN LastN(c.function_calls, 5)
                         ELSE IF k = "operations" THEN LastN(completed_ops, 3)
                         ELSE c.current_operation]
    IN  IF keys # {} THEN trace_info ELSE NoTrace

\* azure_troubleshoot_agent.py:717: completion_data["trace"] = final_trace.
WithTrace(chunk, final_trace) ==
    [k \in DOMAIN chunk \cup {"trace"} |-> IF k = "trace" THEN final_trace ELSE chunk[k]]

\* azure_troubleshoot_agent.py:507 and 705-719: the terminal frame. The
\* collector made at 507 is a local that nothing between 507 and 714 is
\* given, so at 715 it is as it was made.
FinalFrame(r) ==
    LET mode == request[r].mode
        has_collector == enable_trace[r] /\ mode = "agent"
        final_trace == IF has_collector THEN get_current_trace(TraceCollector) ELSE NoTrace
        chunk == completion_data(session_id[r], mode)
    IN  IF has_collector /\ final_trace # NoTrace THEN WithTrace(chunk, final_trace) ELSE chunk

\* Complete that adds the request's message to the thread it stores.
Complete_appending(r) ==
    /\ sessions' = PutThread(sessions, session_id[r], Append(thread[r], Message(r)))
    /\ writer' = PutThread(writer, session_id[r], r)
    /\ frames' = [frames EXCEPT ![r] = Append(@, Wire(FinalFrame(r), request[r]))]
    /\ pc' = [pc EXCEPT ![r] = "done_ok"]
    /\ UNCHANGED <<USE_AZURE_AI_AGENT, phase, init_result, agent, ai_service,
                   simple_ai_assistant, has_foundry_agent, uuid_count,
                   request, session_id, thread, handed, pulled, status, seen>>

\* azure_troubleshoot_agent.py:698-719: the code after the mode branches.
Complete(r) ==
    /\ sessions' = PutThread(sessions, session_id[r], thread[r])
    /\ writer' = PutThread(writer, session_id[r], r)
    /\ frames' = [frames EXCEPT ![r] = Append(@, Wire(FinalFrame(r), request[r]))]
    /\ pc' = [pc EXCEPT ![r] = "done_ok"]
    /\ UNCHANGED <<USE_AZURE_AI_AGENT, phase, init_result, agent, ai_service,
                   simple_ai_assistant, has_foundry_agent, uuid_count,
                   request, session_id, thread, handed, pulled, status, seen>>

\* The upstream sequence ends without failure: its last item carried the
\* updated thread.
upstream_exhausted(r) ==
    /\ pc[r] = "chat_stream"
    /\ pulled[r] # <<>>
    /\ Last(pulled[r]).has_thread
    /\ Complete(r)

\* ------------------------------------------------------------------ agent mode
\* The messages of the provider thread: the user's, and assistant messages
\* with no, one or two text parts.
AgentMessages(k) ==
    {[role |-> "user", text_messages |-> <<DeltaPool[k]>>],
     [role |-> "assistant", text_messages |-> <<>>],
     [role |-> "assistant", text_messages |-> <<DeltaPool[k]>>],
     [role |-> "assistant", text_messages |-> <<"x", DeltaPool[k]>>]}

\* azure_troubleshoot_agent.py:614-621: the frames one provider message gives.
MessageFrames(r, msg) ==
    IF msg.role = "assistant" /\ msg.text_messages # <<>>
    THEN <<Wire(ContentFrame(Last(msg.text_messages), session_id[r], request[r].mode),
                request[r])>>
    ELSE <<>>

\* azure_troubleshoot_agent.py:613-621: one turn of the for loop over messages.
agent_message(r, msg) ==
    /\ pc[r] = "agent_stream"
    /\ Len(pulled[r]) < MaxDeltas
    /\ msg \in AgentMessages(Len(pulled[r]) + 1)
    /\ pulled' = [pulled EXCEPT ![r] = Append(@, msg)]
    /\ frames' = [frames EXCEPT ![r] = @ \o MessageFrames(r, msg)]
    /\ UNCHANGED <<USE_AZURE_AI_AGENT, phase, init_result, agent, ai_service,
                   simple_ai_assistant, has_foundry_agent, sessions, writer, uuid_count,
                   pc, request, session_id, thread, handed, status, seen>>

\* azure_troubleshoot_agent.py:623-632: reading the next page of messages raises.
agent_raises(r) ==
    /\ pc[r] = "agent_stream"
    /\ EndWith(r, Wire(ErrorFrame("agent_communication_error", session_id[r],
                                  request[r].mode), request[r]))
    /\ UNCHANGED <<USE_AZURE_AI_AGENT, phase, init_result, agent, ai_service,
                   simple_ai_assistant, has_foundry_agent, sessions, writer, uuid_count,
                   request, session_id, thread, handed, pulled, status, seen>>

\* The message list is exhausted.
agent_exhausted(r) ==
    /\ pc[r] = "agent_stream"
    /\ Complete(r)

\* ------------------------------------------------------------------ specification
Startup ==
    /\ \E missing \in BOOLEAN, fault \in {"none", "credentials", "connection", "assistant"},
          foundry_ok \in BOOLEAN : startup_event(missing, fault, foundry_ok)
    /\ UNCHANGED <<front_vars, exchange_vars>>

Receive ==
    /\ \E r \in Requests, sid_in \in ClientIds \cup {None} \cup Issued, mode \in Modes :
           chat_stream(r, sid_in, mode)
    /\ UNCHANGED <<front_vars, exchange_vars>>

\* The faults the first pull can meet: none (then the Foundry run, if it is
\* reached, ends one of three ways), the tracer raising e, the assistant's
\* constructor raising e.
NoException == [cls |-> "Exception", conn |-> FALSE, agentkw |-> FALSE]

BeginInputs ==
    {<<FALSE, FALSE, NoException, run>> : run \in {"exception", "failed", "completed"}}
    \cup {<<TRUE, FALSE, e, "completed">> : e \in Exceptions}
    \cup {<<FALSE, TRUE, e, "completed">> : e \in Exceptions}

Begin ==
    /\ \E r \in Requests, i \in BeginInputs : process_message_stream(r, i[1], i[2], i[3], i[4])
    /\ UNCHANGED <<front_vars, exchange_vars>>

ChatItem ==
    /\ \E r \in Requests, content \in {DeltaPool[k] : k \in 1..MaxDeltas} \cup {""},
          has_thread \in BOOLEAN : upstream_item(r, content, has_thread)
    /\ UNCHANGED <<front_vars, exchange_vars>>

ChatRaises ==
    /\ \E r \in Requests : upstream_raises(r)
    /\ UNCHANGED <<front_vars, exchange_vars>>

ChatExhausted ==
    /\ \E r \in Requests : upstream_exhausted(r)
    /\ UNCHANGED <<front_vars, exchange_vars>>

AgentItem ==
    /\ \E r \in Requests, k \in 1..MaxDeltas : \E msg \in AgentMessages(k) : agent_message(r, msg)
    /\ UNCHANGED <<front_vars, exchange_vars>>

AgentRaises ==
    /\ \E r \in Requests : agent_raises(r)
    /\ UNCHANGED <<front_vars, exchange_vars>>

AgentExhausted ==
    /\ \E r \in Requests : agent_exhausted(r)
    /\ UNCHANGED <<front_vars, exchange_vars>>

Next ==
    \/ Startup
    \/ Receive
    \/ Begin
    \/ ChatItem
    \/ ChatRaises
    \/ ChatExhausted
    \/ AgentItem
    \/ AgentRaises
    \/ AgentExhausted

Spec == Init /\ [][Next]_vars

\* One request on its own: what a single response looks like.
ReceiveOne ==
    /\ \E sid_in \in ClientIds \cup {None}, mode \in Modes : chat_stream(1, sid_in, mode)
    /\ UNCHANGED <<front_vars, exchange_vars>>

StreamNext ==
    \/ Startup
    \/ ReceiveOne
    \/ Begin
    \/ ChatItem
    \/ ChatRaises
    \/ ChatExhausted
    \/ AgentItem
    \/ AgentRaises
    \/ AgentExhausted

StreamSpec == Init /\ [][StreamNext]_vars

\* ------------------------------------------------------------------ one exchange
\* One request with its enable_trace field, the function calls of its Foundry
\* run, the exception its upstream raises and a client that may go away.

\* main.py:77-81, 149-157: the request carries enable_trace.
ReceiveTraced ==
    /\ \E sid_in \in ClientIds \cup {None}, mode \in Modes, trace_on \in BOOLEAN :
           /\ chat_stream(1, sid_in, mode)
           /\ enable_trace' = [enable_trace EXCEPT ![1] = trace_on]
    /\ UNCHANGED <<front_vars, made, raised, disconnected>>

\* azure_troubleshoot_agent.py:590-593: create_and_process runs the Foundry
\* agent to the end, function calls included, before anything is yielded.
BeginRun ==
    /\ \E i \in BeginInputs, calls \in 0..MaxCalls :
           /\ process_message_stream(1, i[1], i[2], i[3], i[4])
           /\ made' = [made EXCEPT ![1] = IF pc'[1] = "agent_stream" THEN calls ELSE @]
    /\ UNCHANGED <<front_vars, enable_trace, raised, disconnected>>

\* azure_troubleshoot_agent.py:676-684: invoke_stream raises e.
ChatRaisesWith ==
    /\ \E e \in Exceptions :
           /\ upstream_raises(1)
           /\ raised' = [raised EXCEPT ![1] = e]
    /\ UNCHANGED <<front_vars, enable_trace, made, disconnected>>

\* azure_troubleshoot_agent.py:623-632: the message list raises e.
AgentRaisesWith ==
    /\ \E e \in Exceptions :
           /\ agent_raises(1)
           /\ raised' = [raised EXCEPT ![1] = e]
    /\ UNCHANGED <<front_vars, enable_trace, made, disconnected>>

\* What reaches a suspended generator whose consumer has gone away:
\* asyncio.CancelledError at an await, GeneratorExit at a yield.
Disconnects == {"CancelledError", "GeneratorExit"}

\* IsException with CancelledError under Exception, as before Python 3.8.
IsException_py37(cls) == cls \in {"Exception", "ConnectionError", "CancelledError"}

\* `except Exception` (azure_troubleshoot_agent.py:623, 676, 732 and
\* main.py:176): the classes it catches.
IsException(cls) == cls \in {"Exception", "ConnectionError"}

\* main.py:159-175 with azure_troubleshoot_agent.py:612-632, 662-684: the
\* response is torn down while the generators are suspended inside the try
\* block of their mode; cls is raised there. A handler that catches it yields
\* its error frame; otherwise it leaves process_message_stream and generate.
client_disconnect(r, cls) ==
    /\ pc[r] \in {"chat_stream", "agent_stream"}
    /\ disconnected' = [disconnected EXCEPT ![r] = TRUE]
    /\ IF IsException(cls)
       THEN EndWith(r, Wire(ErrorFrame(IF pc[r] = "chat_stream" THEN "chat_error"
                                       ELSE "agent_communication_error",
                                       session_id[r], request[r].mode), request[r]))
       ELSE /\ pc' = [pc EXCEPT ![r] = "closed"]
            /\ UNCHANGED frames
    /\ UNCHANGED <<USE_AZURE_AI_AGENT, phase, init_result, agent, ai_service,
                   simple_ai_assistant, has_foundry_agent, sessions, writer, uuid_count,
                   request, session_id, thread, handed, pulled, status, seen,
                   enable_trace, made, raised>>

ClientDisconnect ==
    /\ \E cls \in Disconnects : client_disconnect(1, cls)
    /\ UNCHANGED front_vars

ExchangeNext ==
    \/ Startup
    \/ ReceiveTraced
    \/ BeginRun
    \/ ChatItem
    \/ ChatRaisesWith
    \/ ChatExhausted
    \/ AgentItem
    \/ AgentRaisesWith
    \/ AgentExhausted
    \/ ClientDisconnect

ExchangeSpec == Init /\ [][ExchangeNext]_vars

\* ------------------------------------------------------------------ the gateway
\* src/app.py:269-280: chat_stream_proxy opens the client and the stream to the
\* backend; a connect error or a timeout raises inside the try block and the
\* handler answers 502 (305-307).
proxy_connect(g, answer) ==
    /\ gw_pc[g] = "idle"
    /\ \A h \in Proxied : h < g => gw_pc[h] # "idle"
    /\ gw_backend' = [gw_backend EXCEPT ![g] = answer]
    /\ IF answer.reach # "ok"
       THEN /\ gw_status' = [gw_status EXCEPT ![g] = 502]
            /\ gw_pc' = [gw_pc EXCEPT ![g] = "done"]
            /\ UNCHANGED gw_upstream_open
       ELSE /\ gw_upstream_open' = [gw_upstream_open EXCEPT ![g] = TRUE]
            /\ gw_pc' = [gw_pc EXCEPT ![g] = "connected"]
            /\ UNCHANGED gw_status
    /\ UNCHANGED <<gw_body, aside_vars, backend_vars, manager_vars, ws_vars>>

\* src/app.py:281-307: raise_for_status, then the return of the
\* StreamingResponse from inside both async with blocks, which closes the
\* response and the client before the handler's caller gets the response.
proxy_return(g) ==
    /\ gw_pc[g] = "connected"
    /\ gw_upstream_open' = [gw_upstream_open EXCEPT ![g] = FALSE]
    /\ IF gw_backend[g].status >= 400
       THEN /\ gw_status' = [gw_status EXCEPT ![g] = 502]
            /\ gw_pc' = [gw_pc EXCEPT ![g] = "done"]
       ELSE /\ gw_status' = [gw_status EXCEPT ![g] = 200]
            /\ gw_pc' = [gw_pc EXCEPT ![g] = "streaming"]
    /\ UNCHANGED <<gw_backend, gw_body, aside_vars, backend_vars, manager_vars, ws_vars>>

\* src/app.py:284-295: one turn of generate, the body of the response.  On a
\* closed response aiter_bytes raises StreamClosed and generate returns; on an
\* open one the next chunk is relayed, or the stream has ended.
proxy_generate(g) ==
    /\ gw_pc[g] = "streaming"
    /\ IF gw_upstream_open[g] /\ Len(gw_body[g]) < Len(gw_backend[g].chunks)
       THEN /\ gw_body' = [gw_body EXCEPT ![g] = Append(@, gw_backend[g].chunks[Len(@) + 1])]
            /\ UNCHANGED gw_pc
       ELSE /\ gw_pc' = [gw_pc EXCEPT ![g] = "done"]
            /\ UNCHANGED gw_body
    /\ UNCHANGED <<gw_backend, gw_upstream_open, gw_status, aside_vars, backend_vars, manager_vars, ws_vars>>

ProxyConnect == \E g \in Proxied, answer \in BackendAnswers : proxy_connect(g, answer)

ProxyReturn == \E g \in Proxied : proxy_return(g)

ProxyGenerate == \E g \in Proxied : proxy_generate(g)

GatewayNext ==
    \/ ProxyConnect
    \/ ProxyReturn
    \/ ProxyGenerate

GatewaySpec == Init /\ [][GatewayNext]_vars

\* ------------------------------------------------------------------ the unified application
\* src/app.py: the lifespan of the gateway, the ChainlitManager that owns the
\* UI subprocess, the signal handler, and ProxyMiddleware.dispatch.  The
\* event loop runs one piece of code at a time; stop_chainlit is synchronous
\* and blocks it inside process.wait, where only a signal handler can run.

\* src/app.py:405-411 and 427-432: how the caller of stop_chainlit goes on once
\* the call has returned.  signal_handler raises KeyboardInterrupt, which
\* abandons every frame below it, a stop_chainlit interrupted in its wait
\* included.
Resume(caller) ==
    CASE caller = "lifespan" ->
            /\ lifespan' = "closed"
            /\ stopping' = <<>>
            /\ UNCHANGED main
      [] caller = "signal" ->
            /\ main' = IF \E i \in 1..Len(stopping) : stopping[i] = "cleanup"
                       THEN "exited" ELSE "interrupted"
            /\ stopping' = <<>>
            /\ UNCHANGED lifespan
      [] caller = "cleanup" ->
            /\ main' = "exited"
            /\ stopping' = <<>>
            /\ UNCHANGED lifespan

\* src/app.py:101-107: stop_chainlit up to process.wait.  With no handle or
\* with the flag down it returns at once.
stop_chainlit(caller) ==
    IF process # "None" /\ is_running
    THEN /\ terminates' = terminates + 1
         /\ stopping' = Append(stopping, caller)
         /\ UNCHANGED <<process, is_running, chainlit, kills, main, lifespan>>
    ELSE /\ Resume(caller)
         /\ UNCHANGED <<process, is_running, chainlit, kills, terminates>>

\* process.wait that leaves the flag and the handle as they were.
process_wait_keeping(timeout) ==
    /\ stopping # <<>>
    /\ timeout => chainlit = "alive"
    /\ kills' = IF timeout THEN kills + 1 ELSE kills
    /\ chainlit' = "exited"
    /\ UNCHANGED <<is_running, process>>
    /\ Resume(Last(stopping))
    /\ UNCHANGED <<aside_vars, backend_vars, gateway_vars, ws_vars, start_failed, terminates, signals, handled>>

\* src/app.py:107-113: process.wait(timeout=10) returns or raises
\* TimeoutExpired, which is answered with process.kill(); then the flag and
\* the handle are cleared and the innermost waiting caller goes on.
process_wait(timeout) ==
    /\ stopping # <<>>
    /\ timeout => chainlit = "alive"
    /\ kills' = IF timeout THEN kills + 1 ELSE kills
    /\ chainlit' = "exited"
    /\ is_running' = FALSE
    /\ process' = "None"
    /\ Resume(Last(stopping))
    /\ UNCHANGED <<aside_vars, backend_vars, gateway_vars, ws_vars, start_failed, terminates, signals, handled>>

\* The event loop is free to run a step of lifespan or of a request.
LoopFree == main = "run" /\ stopping = <<>>

\* src/app.py:233-237: lifespan awaits the backend's startup_event, which
\* catches whatever it raises.
lifespan_backend_startup(missing, fault, foundry_ok) ==
    /\ LoopFree
    /\ lifespan = "startup"
    /\ startup_event(missing, fault, foundry_ok)
    /\ UNCHANGED <<front_vars, exchange_vars>>

\* src/app.py:239 and 58-75: lifespan calls start_chainlit.
start_chainlit ==
    /\ LoopFree
    /\ lifespan = "startup"
    /\ phase = "serving"
    /\ lifespan' = "starting"
    /\ UNCHANGED <<aside_vars, backend_vars, gateway_vars, ws_vars, process, is_running, chainlit, start_failed,
                   main, stopping, terminates, kills, signals, handled>>

\* Popen that marks the process running as soon as it is spawned.
Popen_marking_running(raises) ==
    /\ LoopFree
    /\ lifespan = "starting"
    /\ IF raises
       THEN /\ start_failed' = TRUE
            /\ lifespan' = "yielded"
            /\ UNCHANGED <<process, chainlit, is_running>>
       ELSE /\ process' = "Popen"
            /\ chainlit' = "alive"
            /\ is_running' = TRUE
            /\ lifespan' = "grace"
            /\ UNCHANGED start_failed
    /\ UNCHANGED <<aside_vars, backend_vars, gateway_vars, ws_vars, main, stopping, terminates, kills,
                   signals, handled>>

\* src/app.py:76-85: subprocess.Popen and the start of the grace delay; an
\* exception of Popen goes through 97-99 to lifespan's handler (241-245).
Popen(raises) ==
    /\ LoopFree
    /\ lifespan = "starting"
    /\ IF raises
       THEN /\ start_failed' = TRUE
            /\ lifespan' = "yielded"
            /\ UNCHANGED <<process, chainlit>>
       ELSE /\ process' = "Popen"
            /\ chainlit' = "alive"
            /\ lifespan' = "grace"
            /\ UNCHANGED start_failed
    /\ UNCHANGED <<aside_vars, backend_vars, gateway_vars, ws_vars, is_running, main, stopping, terminates, kills,
                   signals, handled>>

\* A probe whose failure is not caught: the process ends.
probe_fatal ==
    /\ LoopFree
    /\ lifespan = "grace"
    /\ IF chainlit = "alive"
       THEN /\ is_running' = TRUE
            /\ lifespan' = "yielded"
            /\ UNCHANGED <<start_failed, main>>
       ELSE /\ start_failed' = TRUE
            /\ main' = "exited"
            /\ UNCHANGED <<is_running, lifespan>>
    /\ UNCHANGED <<aside_vars, backend_vars, gateway_vars, ws_vars, process, chainlit, stopping, terminates,
                   kills, signals, handled>>

\* src/app.py:85-99 and 240-245: after the delay, process.poll(); a process
\* that has exited raises RuntimeError, which lifespan logs before it yields.
probe ==
    /\ LoopFree
    /\ lifespan = "grace"
    /\ IF chainlit = "alive"
       THEN /\ is_running' = TRUE
            /\ UNCHANGED start_failed
       ELSE /\ start_failed' = TRUE
            /\ UNCHANGED is_running
    /\ lifespan' = "yielded"
    /\ UNCHANGED <<aside_vars, backend_vars, gateway_vars, ws_vars, process, chainlit, main, stopping, terminates,
                   kills, signals, handled>>

\* The UI subprocess exits on its own.
chainlit_exits ==
    /\ chainlit = "alive"
    /\ main # "exited"
    /\ chainlit' = "exited"
    /\ UNCHANGED <<aside_vars, backend_vars, gateway_vars, ws_vars, process, is_running, lifespan, start_failed,
                   main, stopping, terminates, kills, signals, handled>>

\* src/app.py:247-249: the server ends lifespan, which calls stop_chainlit.
lifespan_shutdown ==
    /\ LoopFree
    /\ lifespan = "yielded"
    /\ stop_chainlit("lifespan")
    /\ UNCHANGED <<aside_vars, backend_vars, gateway_vars, ws_vars, start_failed, signals, handled>>

\* src/app.py:405-414: a signal runs signal_handler wherever the main thread
\* is, the wait of a stop_chainlit included.
signal_handler ==
    /\ main # "exited"
    /\ signals < MaxSignals
    /\ signals' = signals + 1
    /\ stop_chainlit("signal")
    /\ UNCHANGED <<aside_vars, backend_vars, gateway_vars, ws_vars, start_failed, handled>>

\* src/app.py:427-433: uvicorn.run has returned or raised; the finally block
\* calls stop_chainlit and the process ends.
final_cleanup ==
    /\ stopping = <<>>
    /\ \/ main = "interrupted"
       \/ main = "run" /\ lifespan = "closed"
    /\ stop_chainlit("cleanup")
    /\ UNCHANGED <<aside_vars, backend_vars, gateway_vars, ws_vars, start_failed, signals, handled>>

\* ------------------------------------------------------------------ dispatch
\* src/app.py:130-134: the prefixes of the first test of dispatch.
IsApiPath(path) ==
    \/ StartsWith(path, API_PREFIX)
    \/ StartsWith(path, HEALTH_PREFIX)
    \/ StartsWith(path, DOCS_PREFIX)
    \/ StartsWith(path, OPENAPI_PREFIX)
    \/ StartsWith(path, TEST_PREFIX)

\* src/app.py:139: the test for WebSocket traffic.
IsWebSocket(path, upgrade) ==
    \/ StartsWith(path, WS_PREFIX)
    \/ StartsWith(path, CHAT_WS_PREFIX)
    \/ Lower(upgrade) = "websocket"

\* dispatch_rule that tries the UI proxy before the chat stream path.
dispatch_rule_ui_first(path, upgrade) ==
    IF IsApiPath(path) THEN "api-passthrough"
    ELSE IF IsWebSocket(path, upgrade) THEN "websocket-forward"
    ELSE "buffered-proxy"

\* src/app.py:130-161: the rule of dispatch that takes the request, the tests
\* being made in the order of the code.
dispatch_rule(path, upgrade) ==
    IF IsApiPath(path) THEN "api-passthrough"
    ELSE IF path = CHAT_STREAM THEN "chat-stream-passthrough"
    ELSE IF IsWebSocket(path, upgrade) THEN "websocket-forward"
    ELSE "buffered-proxy"

\* src/app.py:260-319 and 436-458: the HTTP handler call_next reaches.
Route(path) ==
    IF StartsWith(path, API_PREFIX) THEN "backend_app"
    ELSE IF path = CHAT_STREAM THEN "chat_stream_proxy"
    ELSE IF path = HEALTH_PREFIX THEN "health_check"
    ELSE IF path = DOCS_PREFIX THEN "docs"
    ELSE IF path = OPENAPI_PREFIX THEN "openapi"
    ELSE IF StartsWith(path, TEST_PREFIX) THEN "test"
    ELSE "not_found"

NoResponse ==
    [path |-> <<>>, upgrade |-> "", rule |-> "", kind |-> "", handler |-> "", status |-> 0,
     refresh |-> 0, connected |-> FALSE, frontend |-> "", backend_status |-> "",
     agent_initialized |-> FALSE]

\* health_check that answers 503 while the UI process is not running.
health_check_unready ==
    [NoResponse EXCEPT !.status = IF is_running THEN 200 ELSE 503,
                       !.frontend = IF is_running THEN "running" ELSE "down"]

\* src/app.py:310-319: the gateway's GET /health.
health_check ==
    [NoResponse EXCEPT !.status = 200,
                       !.frontend = IF is_running THEN "running" ELSE "starting"]

\* src/backend/src/main.py:133-147: the backend's GET /health.
backend_health_check ==
    [NoResponse EXCEPT !.status = 200,
                       !.backend_status = IF agent THEN "healthy" ELSE "degraded",
                       !.agent_initialized = agent]

\* src/app.py:136 and 140: what call_next returns.  Only the two health
\* handlers are followed into; the status of the other handlers is left 0.
call_next(path) ==
    LET handler == Route(path)
        base == IF handler = "health_check" THEN health_check
                ELSE IF handler = "backend_app" /\ path = PATH_API_HEALTH
                     THEN backend_health_check
                ELSE IF handler = "not_found" THEN [NoResponse EXCEPT !.status = 404]
                ELSE NoResponse
    IN  [base EXCEPT !.kind = "call_next", !.handler = handler]

\* How the request to the UI process ends (src/app.py:178-183).
Forwards == {"response", "ConnectError", "ConnectTimeout", "ReadTimeout"}

\* proxy_to_chainlit that does not look at the running flag.
proxy_to_chainlit_always(forward) ==
    IF forward = "response"
    THEN [NoResponse EXCEPT !.kind = "forwarded", !.status = 200, !.connected = TRUE]
    ELSE IF forward = "ConnectError"
    THEN [NoResponse EXCEPT !.kind = "unavailable_page", !.status = 503, !.refresh = 10,
                            !.connected = TRUE]
    ELSE [NoResponse EXCEPT !.kind = "HTTPException", !.status = 502, !.connected = TRUE]

\* src/app.py:143-223: the last rule of dispatch.
proxy_to_chainlit(forward) ==
    IF ~is_running
    THEN [NoResponse EXCEPT !.kind = "starting_page", !.status = 503, !.refresh = 5]
    ELSE IF forward = "response"
    THEN [NoResponse EXCEPT !.kind = "forwarded", !.status = 200, !.connected = TRUE]
    ELSE IF forward = "ConnectError"
    THEN [NoResponse EXCEPT !.kind = "unavailable_page", !.status = 503, !.refresh = 10,
                            !.connected = TRUE]
    ELSE [NoResponse EXCEPT !.kind = "HTTPException", !.status = 502, !.connected = TRUE]

\* src/app.py:123-223: ProxyMiddleware.dispatch for one HTTP request, from
\* the request to its response.  forward is "none" when the UI process is not
\* asked; it can answer only while it is alive.
dispatch(path, upgrade, forward) ==
    /\ LoopFree
    /\ lifespan \in {"startup", "grace", "yielded"}
    /\ Len(handled) < MaxHandled
    /\ LET rule == dispatch_rule(path, upgrade)
           asked == rule = "buffered-proxy" /\ is_running
           response == IF rule = "buffered-proxy" THEN proxy_to_chainlit(forward)
                       ELSE call_next(path)
       IN  /\ IF asked THEN forward \in Forwards ELSE forward = "none"
           /\ forward = "response" => chainlit = "alive"
           /\ handled' = Append(handled, [response EXCEPT !.path = path, !.upgrade = upgrade,
                                                          !.rule = rule])
    /\ UNCHANGED <<aside_vars, backend_vars, gateway_vars, ws_vars, process, is_running, chainlit, lifespan,
                   start_failed, main, stopping, terminates, kills, signals>>

\* ------------------------------------------------------------------ specification of the unified application
LifespanBackendStartup ==
    \E missing \in BOOLEAN, fault \in {"none", "credentials", "connection", "assistant"},
       foundry_ok \in BOOLEAN : lifespan_backend_startup(missing, fault, foundry_ok)

StartChainlit == start_chainlit

PopenStep == \E raises \in BOOLEAN : Popen(raises)

Probe == probe

ChainlitExits == chainlit_exits

LifespanShutdown == lifespan_shutdown

Signal == signal_handler

ProcessWait == \E timeout \in BOOLEAN : process_wait(timeout)

FinalCleanup == final_cleanup

Dispatch ==
    \E i \in DispatchInputs, forward \in Forwards \cup {"none"} : dispatch(i[1], i[2], forward)

UnifiedNext ==
    \/ LifespanBackendStartup
    \/ StartChainlit
    \/ PopenStep
    \/ Probe
    \/ ChainlitExits
    \/ LifespanShutdown
    \/ Signal
    \/ ProcessWait
    \/ FinalCleanup
    \/ Dispatch

UnifiedSpec == Init /\ [][UnifiedNext]_vars

\* ------------------------------------------------------------------ the WebSocket relay
\* src/app.py:322-403: websocket_proxy and chat_websocket_proxy are the same
\* code for two routes.  A frame is [n |-> its number, text |-> it is a text
\* frame]; the handler suspends at every await.

\* A handler that accepts whatever the running flag says.
ws_connect_always(endpoint) ==
    /\ ws_pc = "idle"
    /\ LoopFree
    /\ lifespan \in {"startup", "grace", "yielded"}
    /\ ws_endpoint' = endpoint
    /\ ws_pc' = "accepted"
    /\ UNCHANGED ws_close
    /\ UNCHANGED <<aside_vars, backend_vars, gateway_vars, manager_vars, ws_client_gone, chainlit_ws,
                   to_chainlit, from_chainlit, data, message, client_sent, chainlit_sent,
                   client_count, chainlit_count, chainlit_received, client_received>>

\* src/app.py:322-329 and 364-371: the handler up to websocket.accept(), or the
\* close with 1001 when the UI process is not marked running.
ws_connect(endpoint) ==
    /\ ws_pc = "idle"
    /\ LoopFree
    /\ lifespan \in {"startup", "grace", "yielded"}
    /\ ws_endpoint' = endpoint
    /\ IF ~is_running
       THEN /\ ws_close' = 1001
            /\ ws_pc' = "returned"
       ELSE /\ ws_pc' = "accepted"
            /\ UNCHANGED ws_close
    /\ UNCHANGED <<aside_vars, backend_vars, gateway_vars, manager_vars, ws_client_gone, chainlit_ws,
                   to_chainlit, from_chainlit, data, message, client_sent, chainlit_sent,
                   client_count, chainlit_count, chainlit_received, client_received>>

\* src/app.py:334-335 and 359-361 (376-377, 401-403): websockets.connect to the
\* UI process; when it raises, the handler closes the client with 1011.
websockets_connect(ok) ==
    /\ ws_pc = "accepted"
    /\ ok => chainlit = "alive"
    /\ IF ok
       THEN /\ chainlit_ws' = "open"
            /\ ws_pc' = "relaying"
            /\ to_chainlit' = "receive"
            /\ from_chainlit' = "next"
            /\ UNCHANGED ws_close
       ELSE /\ ws_close' = 1011
            /\ ws_pc' = "returned"
            /\ UNCHANGED <<chainlit_ws, to_chainlit, from_chainlit>>
    /\ UNCHANGED <<aside_vars, backend_vars, gateway_vars, manager_vars, ws_endpoint, ws_client_gone,
                   data, message, client_sent, chainlit_sent, client_count, chainlit_count,
                   chainlit_received, client_received>>

\* src/app.py:337-343 (379-385): websocket.receive_text() in forward_to_chainlit
\* returns the next text frame, raises WebSocketDisconnect (answered with
\* chainlit_ws.close()), or raises on a frame that is not text.
receive_text ==
    /\ to_chainlit = "receive"
    /\ IF ws_close # 0 \/ (client_sent = <<>> /\ ws_client_gone)
       THEN /\ chainlit_ws' = IF chainlit_ws = "open" THEN "closed_ok" ELSE chainlit_ws
            /\ to_chainlit' = "done"
            /\ UNCHANGED <<data, client_sent>>
       ELSE /\ client_sent # <<>>
            /\ client_sent' = Tail(client_sent)
            /\ IF Head(client_sent).text
               THEN /\ data' = Head(client_sent).n
                    /\ to_chainlit' = "send"
               ELSE /\ to_chainlit' = "raised"
                    /\ UNCHANGED data
            /\ UNCHANGED chainlit_ws
    /\ UNCHANGED <<aside_vars, backend_vars, gateway_vars, manager_vars, ws_endpoint, ws_pc, ws_close,
                   ws_client_gone, from_chainlit, message, chainlit_sent, client_count,
                   chainlit_count, chainlit_received, client_received>>

\* chainlit_ws_send that puts the frame before the ones already delivered.
chainlit_ws_send_prepending ==
    /\ to_chainlit = "send"
    /\ IF chainlit_ws = "open"
       THEN /\ chainlit_received' = <<data>> \o chainlit_received
            /\ to_chainlit' = "receive"
       ELSE /\ to_chainlit' = "raised"
            /\ UNCHANGED chainlit_received
    /\ data' = 0
    /\ UNCHANGED <<aside_vars, backend_vars, gateway_vars, manager_vars, ws_endpoint, ws_pc, ws_close,
                   ws_client_gone, chainlit_ws, from_chainlit, message, client_sent,
                   chainlit_sent, client_count, chainlit_count, client_received>>

\* src/app.py:341 (383): chainlit_ws.send(data); on a closed socket it raises
\* ConnectionClosed, which forward_to_chainlit does not catch.
chainlit_ws_send ==
    /\ to_chainlit = "send"
    /\ IF chainlit_ws = "open"
       THEN /\ chainlit_received' = Append(chainlit_received, data)
            /\ to_chainlit' = "receive"
       ELSE /\ to_chainlit' = "raised"
            /\ UNCHANGED chainlit_received
    /\ data' = 0
    /\ UNCHANGED <<aside_vars, backend_vars, gateway_vars, manager_vars, ws_endpoint, ws_pc, ws_close,
                   ws_client_gone, chainlit_ws, from_chainlit, message, client_sent,
                   chainlit_sent, client_count, chainlit_count, client_received>>

\* src/app.py:345-350 (387-392): the iteration over chainlit_ws yields the next
\* message, ends when the socket was closed normally, or raises
\* ConnectionClosed when it was not, which is answered with websocket.close().
chainlit_ws_next ==
    /\ from_chainlit = "next"
    /\ IF chainlit_sent # <<>>
       THEN /\ message' = Head(chainlit_sent)
            /\ chainlit_sent' = Tail(chainlit_sent)
            /\ from_chainlit' = "send"
            /\ UNCHANGED ws_close
       ELSE /\ chainlit_ws \in {"closed_ok", "closed_error"}
            /\ from_chainlit' = "done"
            /\ ws_close' = IF chainlit_ws = "closed_error" /\ ws_close = 0 THEN 1000
                           ELSE ws_close
            /\ UNCHANGED <<message, chainlit_sent>>
    /\ UNCHANGED <<aside_vars, backend_vars, gateway_vars, manager_vars, ws_endpoint, ws_pc,
                   ws_client_gone, chainlit_ws, to_chainlit, data, client_sent, client_count,
                   chainlit_count, chainlit_received, client_received>>

\* src/app.py:348 (390): websocket.send_text(message); with the client gone or
\* closed it raises, which forward_from_chainlit does not catch.
websocket_send_text ==
    /\ from_chainlit = "send"
    /\ IF ~ws_client_gone /\ ws_close = 0
       THEN /\ client_received' = Append(client_received, message)
            /\ from_chainlit' = "next"
       ELSE /\ from_chainlit' = "raised"
            /\ UNCHANGED client_received
    /\ message' = 0
    /\ UNCHANGED <<aside_vars, backend_vars, gateway_vars, manager_vars, ws_endpoint, ws_pc, ws_close,
                   ws_client_gone, chainlit_ws, to_chainlit, data, client_sent,
                   chainlit_sent, client_count, chainlit_count, chainlit_received>>

\* src/app.py:352-357 (394-399): asyncio.gather(..., return_exceptions=True)
\* returns once both loops have ended, whatever they raised; leaving the async
\* with block closes chainlit_ws and the handler returns.
gather_returns ==
    /\ ws_pc = "relaying"
    /\ to_chainlit \in {"done", "raised"}
    /\ from_chainlit \in {"done", "raised"}
    /\ chainlit_ws' = IF chainlit_ws = "open" THEN "closed_ok" ELSE chainlit_ws
    /\ ws_pc' = "returned"
    /\ UNCHANGED <<aside_vars, backend_vars, gateway_vars, manager_vars, ws_endpoint, ws_close,
                   ws_client_gone, to_chainlit, from_chainlit, data, message, client_sent,
                   chainlit_sent, client_count, chainlit_count, chainlit_received,
                   client_received>>

\* The peers.  The client sends a text or a binary frame, or disconnects; the
\* UI process sends a message, or closes its socket with or without a normal
\* close code.
client_sends(text) ==
    /\ ws_pc \in {"accepted", "relaying"}
    /\ ~ws_client_gone /\ ws_close = 0
    /\ client_count < MaxFrames
    /\ client_count' = client_count + 1
    /\ client_sent' = Append(client_sent, [n |-> client_count + 1, text |-> text])
    /\ UNCHANGED <<aside_vars, backend_vars, gateway_vars, manager_vars, ws_endpoint, ws_pc, ws_close,
                   ws_client_gone, chainlit_ws, to_chainlit, from_chainlit, data, message,
                   chainlit_sent, chainlit_count, chainlit_received, client_received>>

client_disconnects ==
    /\ ws_pc \in {"accepted", "relaying"}
    /\ ~ws_client_gone
    /\ ws_client_gone' = TRUE
    /\ UNCHANGED <<aside_vars, backend_vars, gateway_vars, manager_vars, ws_endpoint, ws_pc, ws_close,
                   chainlit_ws, to_chainlit, from_chainlit, data, message, client_sent,
                   chainlit_sent, client_count, chainlit_count, chainlit_received,
                   client_received>>

chainlit_sends ==
    /\ chainlit_ws = "open"
    /\ chainlit_count < MaxFrames
    /\ chainlit_count' = chainlit_count + 1
    /\ chainlit_sent' = Append(chainlit_sent, chainlit_count + 1)
    /\ UNCHANGED <<aside_vars, backend_vars, gateway_vars, manager_vars, ws_endpoint, ws_pc, ws_close,
                   ws_client_gone, chainlit_ws, to_chainlit, from_chainlit, data, message,
                   client_sent, client_count, chainlit_received, client_received>>

chainlit_closes(normal) ==
    /\ chainlit_ws = "open"
    /\ chainlit_ws' = IF normal THEN "closed_ok" ELSE "closed_error"
    /\ UNCHANGED <<aside_vars, backend_vars, gateway_vars, manager_vars, ws_endpoint, ws_pc, ws_close,
                   ws_client_gone, to_chainlit, from_chainlit, data, message, client_sent,
                   chainlit_sent, client_count, chainlit_count, chainlit_received,
                   client_received>>

\* ------------------------------------------------------------------ specification of the WebSocket relay
WsConnect == \E endpoint \in {"/ws/{path}", "/chat/ws"} : ws_connect(endpoint)

WebsocketsConnect == \E ok \in BOOLEAN : websockets_connect(ok)

ClientSends == \E text \in BOOLEAN : client_sends(text)

ChainlitCloses == \E normal \in BOOLEAN : chainlit_closes(normal)

\* The steps of the handler and of its two loops.
WsHandler ==
    \/ WebsocketsConnect
    \/ receive_text
    \/ chainlit_ws_send
    \/ chainlit_ws_next
    \/ websocket_send_text
    \/ gather_returns

WsNext ==
    \/ LifespanBackendStartup
    \/ StartChainlit
    \/ PopenStep
    \/ Probe
    \/ ChainlitExits
    \/ WsConnect
    \/ WsHandler
    \/ ClientSends
    \/ client_disconnects
    \/ chainlit_sends
    \/ ChainlitCloses

WsSpec == Init /\ [][WsNext]_vars

\* The event loop runs every step of the handler that stays enabled; the
\* peers owe nothing.
WsFairSpec == WsSpec /\ WF_vars(WsHandler)

\* ------------------------------------------------------------------ properties
IsTerminal(f) == f.is_done
IsContent(f) == ~f.is_done
Contents(fs) == [i \in 1..Len(fs) |-> fs[i].content]
Range(seq) == {seq[i] : i \in 1..Len(seq)}
Streamed(r) == pc[r] \in {"done_ok", "done_err"}

\* C1: a response of POST /chat/stream served by an initialized agent has at
\* most one frame with is_done true at any moment, that frame is its last
\* frame and ends the response, and a response that has ended, however it
\* ended, has exactly that one terminal frame.
C1_OneTerminalFrameLast ==
    \A r \in Requests :
        status[r] = 200 =>
            /\ \A i \in 1..Len(frames[r]) : frames[r][i].is_done => i = Len(frames[r])
            /\ (frames[r] # <<>> /\ Last(frames[r]).is_done) <=> Streamed(r)

\* C1 witness: the upstream failed after a delta had been sent.
C1_Witness ==
    /\ pc[1] = "done_err"
    /\ Len(frames[1]) = 2
    /\ frames[1][2].content = "chat_error"

\* C2: a generation that completes without failure has at least one frame,
\* and its last frame has is_done true and an empty content.
C2_SuccessEndsWithEmptyTerminal ==
    \A r \in Requests :
        pc[r] = "done_ok" =>
            /\ Len(frames[r]) >= 1
            /\ Last(frames[r]).is_done
            /\ Last(frames[r]).content = ""

\* C2 witness: an agent-mode generation completed after two messages.
C2_Witness ==
    /\ pc[1] = "done_ok"
    /\ request[1].mode = "agent"
    /\ Len(pulled[1]) = 2

\* The contents the upstream produced for request r, in order: the items'
\* contents in chat mode, the last text part of every assistant message that
\* has text parts in agent mode.
HasContent(item) == item.content # ""
HasText(msg) == msg.role = "assistant" /\ msg.text_messages # <<>>
LastTexts(msgs) == [i \in 1..Len(msgs) |-> Last(msgs[i].text_messages)]
ChatRequests == {r \in Requests : status[r] = 200 /\ request[r].mode = "chat"}
AgentRequests == {r \in Requests : status[r] = 200 /\ request[r].mode = "agent"}

\* C3 as stated: in chat mode every item pulled from the upstream is one
\* frame with is_done false, in order.
C3_EveryDeltaOneFrame ==
    \A r \in ChatRequests :
        Contents(SelectSeq(frames[r], IsContent)) = Contents(pulled[r])

\* C3 amended: the frames with is_done false are, in order and one for one,
\* the upstream items whose content is not empty (chat mode) and the assistant
\* messages that have text parts (agent mode); they precede the terminal frame.
C3_NonEmptyDeltasInOrder ==
    /\ \A r \in ChatRequests :
          Contents(SelectSeq(frames[r], IsContent)) =
              Contents(SelectSeq(pulled[r], HasContent))
    /\ \A r \in AgentRequests :
          Contents(SelectSeq(frames[r], IsContent)) =
              LastTexts(SelectSeq(pulled[r], HasText))
    /\ \A r \in Requests : \A i \in 1..Len(frames[r]) :
          frames[r][i].is_done => i = Len(frames[r])

\* C3 witness: an empty item, then a delta, then the end of the sequence.
C3_Witness ==
    /\ pc[1] = "done_ok"
    /\ request[1].mode = "chat"
    /\ Contents(pulled[1]) = <<"", "b">>
    /\ Contents(frames[1]) = <<"b", "">>

\* Request r has run sessions.get (process_message_stream got past line 513).
Begun(r) == pc[r] \in {"chat_stream", "agent_stream", "done_ok", "done_err"}

C5_StoreWrittenOnlyOnSuccess ==
    [][ /\ sessions' # sessions =>
              \E r \in Requests :
                  /\ InFlight(r)
                  /\ pc'[r] = "done_ok"
                  /\ DOMAIN sessions' = DOMAIN sessions \cup {session_id[r]}
                  /\ sessions'[session_id[r]] = thread[r]
                  /\ \A k \in DOMAIN sessions : k # session_id[r] => sessions'[k] = sessions[k]
        /\ \A r \in Requests :
              (pc'[r] # pc[r] /\ pc'[r] \in {"done_err", "done_http_error"}) =>
                  sessions' = sessions
        /\ \A r \in Requests :
              (pc'[r] = pc[r] /\ pulled'[r] # pulled[r]) => sessions' = sessions
      ]_vars

\* C5 witness: the upstream failed after an item had replaced the request's
\* thread variable, and nothing is stored under the request's session id.
C5_Witness ==
    \E r \in Requests :
        /\ pc[r] = "done_err"
        /\ request[r].mode = "chat"
        /\ thread[r] # handed[r]
        /\ session_id[r] \notin DOMAIN sessions

\* C6: two requests that are in flight at the same time have different
\* session ids.
C6_OneGenerationPerSession ==
    \A r, q \in Requests :
        (r # q /\ InFlight(r) /\ InFlight(q)) => session_id[r] # session_id[q]

\* C7: every message of a thread stored under a session id was sent by a
\* request of that session id, every message of the thread a request works on
\* was sent by a request of its own session id, and two requests sent without
\* a session id have different session ids.
C7_SessionsIndependent ==
    /\ \A k \in DOMAIN sessions : \A m \in Range(sessions[k]) : session_id[m.from] = k
    /\ \A r \in Requests : \A m \in Range(thread[r]) : session_id[m.from] = session_id[r]
    /\ \A r, q \in Requests :
          (r # q /\ Begun(r) /\ Begun(q)
               /\ request[r].session_id = None /\ request[q].session_id = None) =>
              session_id[r] # session_id[q]

\* C7 witness: two requests without a session id, and one with a session id
\* of its own choice, overlap and complete.
C7_Witness ==
    /\ pc[1] = "done_ok" /\ pc[2] = "done_ok"
    /\ request[1].session_id = None /\ request[2].session_id = None
    /\ request[1].mode = "chat" /\ request[2].mode = "chat"
    /\ Len(sessions[session_id[1]]) = 1
    /\ Len(sessions[session_id[2]]) = 1

\* C8: a request whose session_id is absent or empty works under a session id
\* generated for it, and on a thread no earlier request stored.
C8_AbsentOrEmptyIdIsFresh ==
    \A r \in Requests :
        (Begun(r) /\ request[r].session_id \in {None, ""}) =>
            /\ session_id[r] \in Issued
            /\ seen[r] = 0

\* C9: after a start that left the agent uninitialized for want of
\* credentials or required environment variables, every request answered is
\* answered with status 200 and one terminal frame.
C9_DegradedStartAnswersWithFrame ==
    \A r \in Requests :
        (init_result \in {"missing_vars", "ValueError"} /\ Done(r)) =>
            /\ status[r] = 200
            /\ Len(frames[r]) = 1
            /\ frames[r][1].is_done

\* C10: every response of the gateway's POST /chat/stream that has ended,
\* whatever the backend did, is an event stream (status 200) whose last chunk
\* is a terminal frame.
C10_GatewayEndsWithTerminalFrame ==
    \A g \in Proxied :
        gw_pc[g] = "done" =>
            /\ gw_status[g] = 200
            /\ gw_body[g] # <<>>
            /\ Last(gw_body[g]).is_done

\* C11: a gateway POST /chat/stream whose backend answered 200 keeps the
\* upstream response open while its body is being produced, and once the
\* response has ended the client has received every chunk of the backend's
\* stream, in order, the terminal frame included.
C11_GatewayRelaysEveryChunk ==
    \A g \in Proxied :
        /\ gw_pc[g] = "streaming" => gw_upstream_open[g]
        /\ (gw_pc[g] = "done" /\ gw_backend[g].reach = "ok" /\ gw_backend[g].status = 200)
               => gw_body[g] = gw_backend[g].chunks

\* ------------------------------------------------------------------ properties of the unified application
\* The step is a request answered by dispatch; Answer is its response.
Handles == Len(handled') = Len(handled) + 1
Answer == handled'[Len(handled')]
Rules == {"api-passthrough", "chat-stream-passthrough", "websocket-forward", "buffered-proxy"}
Handled(i) == handled[i]

\* C12: every request dispatch has answered fell under exactly one of the
\* four rules, two requests with the same path and Upgrade header fell under
\* the same rule whatever the UI process was doing, and the literal path
\* /chat/stream always went through call_next to chat_stream_proxy under the
\* chat-stream rule, never to the UI proxy or a placeholder.
C12_DispatchTotalAndDeterministic ==
    \A i \in 1..Len(handled) :
        /\ Handled(i).rule \in Rules
        /\ \A j \in 1..Len(handled) :
               (Handled(j).path = Handled(i).path /\ Handled(j).upgrade = Handled(i).upgrade)
                   => Handled(j).rule = Handled(i).rule
        /\ Handled(i).path = CHAT_STREAM =>
               /\ Handled(i).rule = "chat-stream-passthrough"
               /\ Handled(i).kind = "call_next"
               /\ Handled(i).handler = "chat_stream_proxy"
               /\ ~Handled(i).connected

\* /chat/stream was requested twice, once with an Upgrade: WebSocket header,
\* before and after the UI process was marked running.
C12_Witness ==
    /\ Len(handled) = 2
    /\ handled[1].path = CHAT_STREAM /\ handled[1].upgrade = ""
    /\ handled[2].path = CHAT_STREAM /\ handled[2].upgrade = "WebSocket"
    /\ is_running

\* C13: a failed start of the UI process leaves lifespan at its yield with
\* the process running on; from then on a request under the api or
\* chat-stream rule goes through call_next to the handler of its path, and a
\* request under the buffered-proxy rule gets the placeholder page.
C13_DegradedModeServes ==
    [][/\ (start_failed' /\ ~start_failed) => (lifespan' = "yielded" /\ main' = "run")
       /\ (start_failed /\ Handles) =>
              /\ Answer.rule \in {"api-passthrough", "chat-stream-passthrough"} =>
                     (Answer.kind = "call_next" /\ Answer.handler = Route(Answer.path))
              /\ Answer.rule = "buffered-proxy" =>
                     (Answer.kind = "starting_page" /\ Answer.status = 503)]_vars

\* The subprocess had exited at the probe; afterwards /api/health was served
\* by the backend and / got the placeholder.
C13_Witness ==
    /\ start_failed /\ process = "Popen" /\ chainlit = "exited"
    /\ Len(handled) = 2
    /\ handled[1].path = PATH_API_HEALTH /\ handled[1].handler = "backend_app"
    /\ handled[1].status = 200
    /\ handled[2].path = PATH_ROOT /\ handled[2].kind = "starting_page"

\* C14: a request that falls under the buffered-proxy rule while is_running
\* is false is answered 503 with the auto-refreshing placeholder, and the UI
\* process is not connected to.
C14_PlaceholderWhileNotRunning ==
    [][(Handles /\ ~is_running /\ Answer.rule = "buffered-proxy") =>
           /\ Answer.status = 503
           /\ Answer.kind = "starting_page"
           /\ Answer.refresh > 0
           /\ ~Answer.connected]_vars

\* The UI process was running and has been stopped; a UI request after that
\* got the placeholder.
C14_Witness ==
    /\ ~is_running /\ terminates > 0 /\ main = "run"
    /\ Len(handled) > 0
    /\ handled[Len(handled)].kind = "starting_page"

\* C15: a request under the buffered-proxy rule, made while is_running is
\* true, that the UI process does not answer (refused or timed out) gets the
\* 'unavailable' 503 placeholder.
C15_UnreachableUiGetsPlaceholder ==
    [][(Handles /\ is_running /\ Answer.rule = "buffered-proxy" /\ Answer.kind # "forwarded") =>
           /\ Answer.kind = "unavailable_page"
           /\ Answer.status = 503]_vars

\* C16: GET /health of the gateway is answered 200, and with
\* frontend "starting" whenever is_running is false.
C16_GatewayHealthAlways200 ==
    [][(Handles /\ Answer.handler = "health_check") =>
           /\ Answer.status = 200
           /\ ~is_running => Answer.frontend = "starting"]_vars

\* /health was asked during the grace delay and again after the UI process
\* was marked running.
C16_Witness ==
    /\ Len(handled) = 2
    /\ handled[1].handler = "health_check" /\ handled[1].frontend = "starting"
    /\ handled[2].handler = "health_check" /\ handled[2].frontend = "running"

\* C17: when GET /health of the gateway reports frontend "running", the UI
\* subprocess is alive.
C17_HealthReflectsLiveness ==
    [][(Handles /\ Answer.handler = "health_check" /\ Answer.frontend = "running") =>
           chainlit = "alive"]_vars

\* C18: GET /health of the backend is answered 200, with status "degraded"
\* and agent_initialized false whenever startup did not end with a
\* completed initialize(), and with "healthy" only when it did.
C18_BackendHealthReportsDegraded ==
    [][(Handles /\ Answer.path = PATH_API_HEALTH) =>
           /\ Answer.status = 200
           /\ init_result # "ok" =>
                  (Answer.backend_status = "degraded" /\ ~Answer.agent_initialized)
           /\ Answer.backend_status = "healthy" => init_result = "ok"]_vars

\* The state of the UI process as the gateway sees it.
UIState ==
    IF is_running THEN "running"
    ELSE IF start_failed THEN "failed"
    ELSE IF lifespan \in {"starting", "grace"} THEN "starting"
    ELSE "stopped"

UIStateNext == {<<"stopped", "starting">>, <<"starting", "running">>,
                <<"starting", "failed">>, <<"running", "stopped">>}

\* C19: the UI process goes stopped -> starting -> (running | failed) and
\* running -> stopped and nowhere else; is_running becomes true only in the
\* probe after the grace delay, with the subprocess alive; after a failed
\* start it is never true.
C19_LifecycleTransitions ==
    [][/\ UIState' # UIState => <<UIState, UIState'>> \in UIStateNext
       /\ (is_running' /\ ~is_running) =>
              (lifespan = "grace" /\ lifespan' = "yielded" /\ chainlit = "alive")
       /\ start_failed => (~is_running' /\ start_failed')]_vars

\* A start that failed at the probe, and the process has gone through
\* signal, shutdown and exit since.
C19_Witness ==
    /\ start_failed /\ process = "Popen" /\ chainlit = "exited"
    /\ signals > 0 /\ main = "exited"

\* C20: terminate is sent only by a stop_chainlit that finds the handle set
\* and the flag up; kill is sent only while that stop waits and the process
\* has outlived the timeout; when the stop returns the flag is down and the
\* handle cleared; once a stop has returned no terminate and no kill is sent.
StopReturned == terminates > 0 /\ stopping = <<>>

C20_GracefulStopOnce ==
    [][/\ terminates' # terminates =>
              (process = "Popen" /\ is_running /\ terminates' = terminates + 1)
       /\ kills' # kills =>
              (stopping # <<>> /\ chainlit = "alive" /\ kills' = kills + 1 /\ kills < terminates)
       /\ (stopping # <<>> /\ stopping' = <<>>) => (~is_running' /\ process' = "None")
       /\ StopReturned =>
              (~is_running /\ process = "None" /\ terminates' = terminates /\ kills' = kills)]_vars

\* The signal handler stopped a running UI process with terminate and kill,
\* and the final cleanup has run after it.
C20_Witness ==
    /\ terminates = 1 /\ kills = 1 /\ signals = 1
    /\ main = "exited"
    /\ ~is_running /\ process = "None"

\* ------------------------------------------------------------------ properties of the WebSocket relay
\* C21: a WebSocket connection made while is_running is false is closed with
\* 1001 and the handler returns; no socket to the UI process is opened for it
\* and no frame is relayed in either direction.
C21_NotRunningClosesWith1001 ==
    [][/\ (ws_pc = "idle" /\ ws_pc' # "idle" /\ ~is_running) =>
              (ws_close' = 1001 /\ ws_pc' = "returned")
       /\ ws_close = 1001 =>
              /\ ws_pc' = "returned" /\ ws_close' = 1001
              /\ chainlit_ws' = "none"
              /\ chainlit_received' = <<>> /\ client_received' = <<>>]_vars

\* /chat/ws was connected to after a failed start of the UI process.
C21_Witness ==
    /\ ws_endpoint = "/chat/ws"
    /\ start_failed
    /\ ws_close = 1001 /\ ws_pc = "returned"

\* C22: when the handler has returned after one of the forwarding loops
\* raised, the client was closed with 1011 and the socket to the UI process
\* is closed.
C22_LoopFaultClosesBothWith1011 ==
    (ws_pc = "returned" /\ (to_chainlit = "raised" \/ from_chainlit = "raised"))
        => (ws_close = 1011 /\ chainlit_ws \in {"closed_ok", "closed_error"})

\* The UI process has closed its socket under a relay of /chat/ws whose
\* client has sent a frame and is still connected.
ChatWsUpstreamClosed ==
    /\ ws_endpoint = "/chat/ws"
    /\ ws_pc = "relaying"
    /\ client_count >= 1
    /\ chainlit_ws \in {"closed_ok", "closed_error"}
    /\ ~ws_client_gone /\ ws_close = 0

\* C23: once the UI process has closed its socket under a /chat/ws relay whose
\* client has sent a frame, the client is eventually closed with 1011.
C23_UpstreamCloseClosesClient ==
    ChatWsUpstreamClosed ~> (ws_close = 1011)

LoopEnded(l) == l \in {"done", "raised"}

\* C24: once one of the two forwarding loops of a relay has ended, the handler
\* eventually returns with both loops ended and the socket to the UI process
\* closed.
C24_LoopsJoined ==
    (ws_pc = "relaying" /\ (LoopEnded(to_chainlit) \/ LoopEnded(from_chainlit)))
        ~> (/\ ws_pc = "returned"
            /\ LoopEnded(to_chainlit) /\ LoopEnded(from_chainlit)
            /\ chainlit_ws # "open")

\* ------------------------------------------------------------------ sample data
\* src/eval/sample_data.py:5-46: SAMPLE_QUERIES, ten queries per domain; a
\* query is named by its domain and its place.
SAMPLE_QUERIES ==
    [d \in {"technology", "general", "business"} |-> [i \in 1..10 |-> <<d, i>>]]

\* src/eval/sample_data.py:49-64: the queries that have a ground truth.
SAMPLE_GROUND_TRUTHS ==
    {<<"technology", 1>>, <<"technology", 2>>, <<"technology", 3>>,
     <<"general", 1>>, <<"business", 1>>}

\* src/eval/sample_data.py:67-88: SAMPLE_CONTEXTS, four contexts per pool.
SAMPLE_CONTEXTS ==
    [p \in {"azure_search", "ai_concepts", "business_ai"} |-> [i \in 1..4 |-> <<p, i>>]]

\* Slice that stops one element late.
Slice_inclusive(s, n) ==
    LET stop == IF n < 0 THEN (IF Len(s) + n < 0 THEN 0 ELSE Len(s) + n)
                ELSE IF n + 1 > Len(s) THEN Len(s) ELSE n + 1
    IN  SubSeq(s, 1, stop)

\* s[:n] of Python: a negative n counts from the end.
Slice(s, n) ==
    LET stop == IF n < 0 THEN (IF Len(s) + n < 0 THEN 0 ELSE Len(s) + n)
                ELSE IF n > Len(s) THEN Len(s) ELSE n
    IN  SubSeq(s, 1, stop)

\* get_sample_dataset that takes an unknown domain for one without queries.
get_sample_dataset_lenient(d, n) ==
    LET queries == IF d \in DOMAIN SAMPLE_QUERIES THEN Slice(SAMPLE_QUERIES[d], n) ELSE <<>>
        context_pool == IF d = "technology" THEN SAMPLE_CONTEXTS["azure_search"]
                        ELSE IF d = "general" THEN SAMPLE_CONTEXTS["ai_concepts"]
                        ELSE SAMPLE_CONTEXTS["business_ai"]
    IN  [raised |-> "none",
         queries |-> queries,
         ground_truths |-> [i \in 1..Len(queries) |->
                              IF queries[i] \in SAMPLE_GROUND_TRUTHS THEN queries[i] ELSE <<None>>],
         contexts |-> [i \in 1..Len(queries) |-> Slice(context_pool, 3)]]

\* src/eval/sample_data.py:89-123: get_sample_dataset. A ground truth is
\* named by its query, <<None>> standing for the None of line 109.
get_sample_dataset(d, n) ==
    IF d \notin DOMAIN SAMPLE_QUERIES
    THEN [raised |-> "ValueError", queries |-> <<>>, ground_truths |-> <<>>, contexts |-> <<>>]
    ELSE LET queries == Slice(SAMPLE_QUERIES[d], n)
             context_pool == IF d = "technology" THEN SAMPLE_CONTEXTS["azure_search"]
                             ELSE IF d = "general" THEN SAMPLE_CONTEXTS["ai_concepts"]
                             ELSE SAMPLE_CONTEXTS["business_ai"]
         IN  [raised |-> "none",
              queries |-> queries,
              ground_truths |-> [i \in 1..Len(queries) |->
                                   IF queries[i] \in SAMPLE_GROUND_TRUTHS
                                   THEN queries[i] ELSE <<None>>],
              contexts |-> [i \in 1..Len(queries) |-> Slice(context_pool, 3)]]

\* The domains a caller may name: the three of SAMPLE_QUERIES, the one of
\* test_system.py:79, and near misses of the keys.
Domains ==
    {"technology", "general", "business", "invalid_domain", "", "Technology", "azure_search"}

Sizes == (0 - MaxSize)..MaxSize

\* A call with any domain and any size.
SampleInit ==
    /\ ProgramInit
    /\ domain \in Domains
    /\ size \in Sizes
    /\ dataset = NotCalled

\* The call is made.
GetSampleDataset ==
    /\ dataset = NotCalled
    /\ dataset' = get_sample_dataset(domain, size)
    /\ UNCHANGED <<domain, size, trace_vars, client_vars, backend_vars, gateway_vars,
                   manager_vars, ws_vars>>

SampleNext == GetSampleDataset

SampleSpec == SampleInit /\ [][SampleNext]_vars

\* C30: a call of get_sample_dataset with a domain that is not a key of
\* SAMPLE_QUERIES raises ValueError and returns nothing, whatever the size.
C30_UnknownDomainRaises ==
    (dataset # NotCalled /\ domain \notin DOMAIN SAMPLE_QUERIES)
        => (/\ dataset.raised = "ValueError"
            /\ dataset.queries = <<>> /\ dataset.ground_truths = <<>> /\ dataset.contexts = <<>>)

\* The call of test_system.py:79 was made and raised.
C30_Witness ==
    /\ domain = "invalid_domain" /\ size = 5
    /\ dataset.raised = "ValueError"

\* C31: a call with a key of SAMPLE_QUERIES and a size n between 0 and the
\* number of queries of that key returns three lists of n entries each, and
\* every entry of the contexts is a list that is not empty.
C31_DatasetHasSizeEntries ==
    (/\ dataset # NotCalled
     /\ domain \in DOMAIN SAMPLE_QUERIES
     /\ size >= 0 /\ size <= Len(SAMPLE_QUERIES[domain]))
        => (/\ dataset.raised = "none"
            /\ Len(dataset.queries) = size
            /\ Len(dataset.ground_truths) = size
            /\ Len(dataset.contexts) = size
            /\ \A i \in 1..Len(dataset.contexts) : dataset.contexts[i] # <<>>)

\* The call of test_system.py:60 for the business domain has returned.
C31_Witness ==
    /\ domain = "business" /\ size = 3
    /\ dataset.raised = "none"
    /\ Len(dataset.queries) = 3 /\ Len(dataset.contexts) = 3

\* ------------------------------------------------------------------ trace collector
\* One TraceCollector used through its methods, then asked for its trace.
\* An operation is its name and its completed flag; its times, context and
\* result are left out. The k-th function call has k for its arguments.
OperationNames == {"a", "b"}

StartOperation ==
    /\ ~traced
    /\ \E operation_name \in OperationNames :
           collector' = start_operation(collector, operation_name)
    /\ UNCHANGED <<recorded, completed, traced, returned, eval_vars, client_vars,
                   backend_vars, gateway_vars, manager_vars, ws_vars>>

CompleteOperation ==
    /\ ~traced
    /\ Len(completed) < MaxOperations
    /\ \E operation_name \in OperationNames :
           /\ collector' = complete_operation(collector, operation_name)
           /\ completed' = IF collector.current_operation.name = operation_name
                            THEN Append(completed, operation_name) ELSE completed
    /\ UNCHANGED <<recorded, traced, returned, eval_vars, client_vars,
                   backend_vars, gateway_vars, manager_vars, ws_vars>>

RecordFunctionCall ==
    /\ ~traced
    /\ Len(recorded) < MaxRecorded
    /\ collector' = record_function_call(collector, "f", Len(recorded) + 1)
    /\ recorded' = Append(recorded, [function |-> "f", arguments |-> Len(recorded) + 1])
    /\ UNCHANGED <<completed, traced, returned, eval_vars, client_vars,
                   backend_vars, gateway_vars, manager_vars, ws_vars>>

GetCurrentTrace ==
    /\ ~traced
    /\ traced' = TRUE
    /\ returned' = get_current_trace(collector)
    /\ UNCHANGED <<collector, recorded, completed, eval_vars, client_vars,
                   backend_vars, gateway_vars, manager_vars, ws_vars>>

TraceNext ==
    \/ StartOperation
    \/ CompleteOperation
    \/ RecordFunctionCall
    \/ GetCurrentTrace

TraceSpec == Init /\ [][TraceNext]_vars

\* s holds the last Len(s) elements of t, in t's order.
IsTail(s, t) ==
    /\ Len(s) <= Len(t)
    /\ \A i \in 1..Len(s) : s[i] = t[Len(t) - Len(s) + i]

Smaller(a, b) == IF a < b THEN a ELSE b

\* C32: what get_current_trace returned lists the last five function calls
\* recorded (all of them when there are fewer) and the last three operations
\* completed (all when fewer), each in the order of recording, and is None
\* exactly when no call was recorded, no operation completed and none is in
\* progress.
C32_TraceKeepsMostRecent ==
    traced =>
        /\ (returned = NoTrace) <=> (/\ recorded = <<>>
                                     /\ completed = <<>>
                                     /\ collector.current_operation = NoOperation)
        /\ recorded # <<>> =>
               /\ "function_calls" \in DOMAIN returned
               /\ Len(returned["function_calls"]) = Smaller(5, Len(recorded))
               /\ IsTail(returned["function_calls"], recorded)
        /\ completed # <<>> =>
               /\ "operations" \in DOMAIN returned
               /\ Len(returned["operations"]) = Smaller(3, Len(completed))
               /\ IsTail([i \in 1..Len(returned["operations"]) |->
                             returned["operations"][i].name], completed)
               /\ \A i \in 1..Len(returned["operations"]) : returned["operations"][i].completed
        /\ recorded = <<>> => "function_calls" \notin DOMAIN returned
        /\ completed = <<>> => "operations" \notin DOMAIN returned

\* The trace was asked for after six calls were recorded and four operations
\* completed, the last two of them under different names.
C32_Witness ==
    /\ traced
    /\ Len(recorded) = 6
    /\ Len(completed) = 4 /\ completed[3] # completed[4]
    /\ Len(returned["function_calls"]) = 5
    /\ Len(returned["operations"]) = 3

\* ------------------------------------------------------------------ the UI's backend client
\* What httpx can raise into send_message_stream: while the request is sent
\* (raise_for_status included) and while the lines of the body are read.
ConnectFailures ==
    {[cls |-> "ConnectError", status |-> 0],
     [cls |-> "TimeoutException", status |-> 0],
     [cls |-> "HTTPStatusError", status |-> 500],
     [cls |-> "HTTPStatusError", status |-> 404],
     [cls |-> "Exception", status |-> 0]}

ReadFailures ==
    {[cls |-> "TimeoutException", status |-> 0],
     [cls |-> "HTTPError", status |-> 0],
     [cls |-> "Exception", status |-> 0]}

\* The lines of an event stream: an event with a JSON object, an event whose
\* JSON is a number, an event that is not JSON, and a line that is no event.
Lines ==
    [kind : {"object"}, content : {"", "a"}, is_done : BOOLEAN]
    \cup [kind : {"scalar", "not_json", "other"}, content : {""}, is_done : {FALSE}]

\* src/frontend/app.py:53-59 and the like: the chunk of a handler.
SyntheticChunk(content) == [content |-> content, is_done |-> TRUE, synthetic |-> TRUE]

\* src/frontend/app.py:51-87: the handlers of send_message_stream, in their
\* order. The response of client.stream has not been read, so reading
\* e.response.text at line 76 raises (httpx.ResponseNotRead) inside the handler.
Handler(e) ==
    IF e.cls = "ConnectError" THEN [raises |-> FALSE, content |-> "connect_error"]
    ELSE IF e.cls = "TimeoutException" THEN [raises |-> FALSE, content |-> "timeout_error"]
    ELSE IF e.cls = "HTTPStatusError"
    THEN IF e.status = 500 THEN [raises |-> FALSE, content |-> "service_error"]
         ELSE [raises |-> TRUE, content |-> ""]
    ELSE IF e.cls = "HTTPError" THEN [raises |-> FALSE, content |-> "communication_error"]
    ELSE [raises |-> FALSE, content |-> "unexpected_error"]

\* src/frontend/app.py:251-263: the body of on_message's loop for one chunk;
\* at is_done it breaks, which closes the generator.
Consume(chunk) ==
    /\ yielded' = Append(yielded, chunk)
    /\ shown' = IF chunk.content # "" THEN Append(shown, chunk.content) ELSE shown
    /\ IF chunk.is_done
       THEN /\ om_pc' = "returned"
            /\ sm_pc' = "closed"
       ELSE UNCHANGED <<om_pc, sm_pc>>

\* src/frontend/app.py:51-87 with 277-297: the request fails with e; the
\* handler yields its chunk to on_message, or raises into on_message, which
\* then sends an error message.
Fail(e) ==
    /\ IF Handler(e).raises
       THEN /\ sm_pc' = "raised"
            /\ om_pc' = "failed"
            /\ shown' = Append(shown, "processing_error")
            /\ UNCHANGED yielded
       ELSE Consume(SyntheticChunk(Handler(e).content))
    /\ UNCHANGED lines

\* src/frontend/app.py:207-241: on_message up to its loop; when the health
\* check fails it sends a message and returns.
on_message(healthy) ==
    /\ om_pc = "idle"
    /\ IF healthy
       THEN /\ om_pc' = "consuming"
            /\ UNCHANGED shown
       ELSE /\ om_pc' = "returned"
            /\ shown' = Append(shown, "backend_unavailable")
    /\ UNCHANGED <<sm_pc, lines, yielded, eval_vars, trace_vars,
                   backend_vars, gateway_vars, manager_vars, ws_vars>>

\* src/frontend/app.py:24-41: the first pull sends the request.
send_message_stream(ok, e) ==
    /\ om_pc = "consuming"
    /\ sm_pc = "idle"
    /\ IF ok
       THEN /\ sm_pc' = "streaming"
            /\ UNCHANGED <<om_pc, lines, yielded, shown>>
       ELSE Fail(e)
    /\ UNCHANGED <<eval_vars, trace_vars, backend_vars, gateway_vars, manager_vars, ws_vars>>

\* src/frontend/app.py:43-49 with 251-263: one line of the body. Only an
\* event whose data is JSON is yielded; a chunk that is no object makes
\* chunk.get fail in on_message, which leaves the generator.
aiter_lines(line) ==
    /\ om_pc = "consuming"
    /\ sm_pc = "streaming"
    /\ lines < MaxLines
    /\ lines' = lines + 1
    /\ IF line.kind = "object"
       THEN Consume([content |-> line.content, is_done |-> line.is_done, synthetic |-> FALSE])
       ELSE IF line.kind = "scalar"
       THEN /\ om_pc' = "failed"
            /\ sm_pc' = "closed"
            /\ shown' = Append(shown, "processing_error")
            /\ UNCHANGED yielded
       ELSE UNCHANGED <<om_pc, sm_pc, yielded, shown>>
    /\ UNCHANGED <<eval_vars, trace_vars, backend_vars, gateway_vars, manager_vars, ws_vars>>

\* src/frontend/app.py:43 and 266-269: the body ends; the generator ends and
\* on_message sends its message.
body_ends ==
    /\ om_pc = "consuming"
    /\ sm_pc = "streaming"
    /\ sm_pc' = "ended"
    /\ om_pc' = "returned"
    /\ UNCHANGED <<lines, yielded, shown, eval_vars, trace_vars,
                   backend_vars, gateway_vars, manager_vars, ws_vars>>

\* src/frontend/app.py:43 and 51-87: reading the body raises e.
body_raises(e) ==
    /\ om_pc = "consuming"
    /\ sm_pc = "streaming"
    /\ Fail(e)
    /\ UNCHANGED <<eval_vars, trace_vars, backend_vars, gateway_vars, manager_vars, ws_vars>>

OnMessage == \E healthy \in BOOLEAN : on_message(healthy)

SendMessageStream ==
    \E ok \in BOOLEAN, e \in ConnectFailures : send_message_stream(ok, e)

AiterLines == \E line \in Lines : aiter_lines(line)

BodyRaises == \E e \in ReadFailures : body_raises(e)

ClientNext ==
    \/ OnMessage
    \/ SendMessageStream
    \/ AiterLines
    \/ body_ends
    \/ BodyRaises

ClientSpec == Init /\ [][ClientNext]_vars

\* C37: send_message_stream does not raise into on_message; a chunk made by
\* a handler is the last chunk yielded and the only one of its kind; no chunk
\* follows a chunk with is_done; and what the user was shown is the content
\* of the chunks yielded, in order.
C37_ClientNeverRaises ==
    /\ sm_pc # "raised"
    /\ \A i \in 1..Len(yielded) :
           (yielded[i].synthetic \/ yielded[i].is_done) => i = Len(yielded)
    /\ om_pc \in {"consuming", "returned"} /\ sm_pc # "idle" =>
           shown = [i \in 1..Len(SelectSeq(yielded, LAMBDA c : c.content # "")) |->
                      SelectSeq(yielded, LAMBDA c : c.content # "")[i].content]

\* ------------------------------------------------------------------ properties of one exchange
\* The frame of lines 542-547 as the client gets it.
AgentDisabledFrame(r) ==
    Wire(ErrorFrame("agent_disabled", session_id'[r], request[r].mode), request[r])

\* C25: the first pull of an agent-mode request made while USE_AZURE_AI_AGENT
\* is off, the tracer not failing, ends the response with exactly one frame, the
\* terminal frame that says agent mode is disabled; the Foundry run is not
\* reached whatever it would have done, and nothing is added afterwards.
C25_AgentDisabledSingleFrame ==
    [][/\ \A i \in BeginInputs :
              (/\ ~i[1]
               /\ request[1].mode = "agent"
               /\ ~USE_AZURE_AI_AGENT
               /\ process_message_stream(1, i[1], i[2], i[3], i[4]))
              => (/\ frames'[1] = <<AgentDisabledFrame(1)>>
                  /\ frames'[1][1].is_done
                  /\ pc'[1] = "done_err"
                  /\ pulled'[1] = <<>>)
       /\ pc[1] = "done_err" => (pc'[1] = "done_err" /\ frames'[1] = frames[1])]_vars

\* An agent-mode request was answered with the one frame of the disabled flag.
C25_Witness ==
    /\ request[1].mode = "agent"
    /\ ~USE_AZURE_AI_AGENT
    /\ pc[1] = "done_err"
    /\ Len(frames[1]) = 1
    /\ frames[1][1].content = "agent_disabled"
    /\ frames[1][1].is_done

\* C26: every frame written for a request carries the request's mode.
C26_FramesCarryRequestMode ==
    \A r \in Requests : \A i \in 1..Len(frames[r]) : frames[r][i].mode = request[r].mode

\* One request with an unrecognized mode has its terminal frame, another in
\* agent mode has a content frame and its terminal frame.
C26_Witness ==
    /\ request[1].mode = "bogus" /\ Len(frames[1]) = 1 /\ frames[1][1].is_done
    /\ request[2].mode = "agent" /\ Len(frames[2]) = 2 /\ pc[2] = "done_ok"

\* C27: from the moment the client has gone away, no further item is pulled
\* from the upstream, no frame is written and the session store stays as it is.
C27_DisconnectStopsQuietly ==
    [][\A r \in Requests :
          disconnected'[r] => (/\ pulled'[r] = pulled[r]
                               /\ frames'[r] = frames[r]
                               /\ sessions' = sessions)]_vars

\* The client went away from a chat-mode response after a frame had been
\* written.
C27_Witness ==
    /\ disconnected[1]
    /\ request[1].mode = "chat"
    /\ frames[1] # <<>>
    /\ pc[1] = "closed"

\* The diagnostic the classification gives e in this mode.
Diagnostics(e, mode) ==
    IF e.cls = "ConnectionError" \/ e.conn
    THEN {"connection_error", "connection_error_private_endpoint"}
    ELSE IF mode = "agent" /\ e.agentkw THEN {"agent_mode_error"}
    ELSE {"generic_error"}

\* C28: the terminal frame of a response whose upstream raised carries the
\* diagnostic of the exception's class: connectivity first, then agent (agent
\* mode only), then generic.
C28_UpstreamFailureClassified ==
    \A r \in Requests :
        (raised[r] # NotRaised /\ pc[r] = "done_err")
            => (/\ Last(frames[r]).is_done
                /\ Last(frames[r]).content \in Diagnostics(raised[r], request[r].mode))

\* C29: the terminal frame of a successful agent-mode response with
\* enable_trace carries a trace listing the function calls of the exchange
\* (the last five at most) when there were any, and no trace when there were
\* none.
C29_TerminalFrameCarriesTrace ==
    \A r \in Requests :
        (pc[r] = "done_ok" /\ request[r].mode = "agent" /\ enable_trace[r])
            => LET f == Last(frames[r])
               IN  /\ f.is_done
                   /\ made[r] = 0 => "trace" \notin DOMAIN f
                   /\ made[r] > 0 =>
                          /\ "trace" \in DOMAIN f
                          /\ "function_calls" \in DOMAIN f.trace
                          /\ Len(f.trace.function_calls) = IF made[r] < 5 THEN made[r] ELSE 5

\* ------------------------------------------------------------------ further properties
\* C33: once the process has ended after a shutdown request, the UI
\* subprocess it spawned is not alive: it had exited by itself or it was
\* sent terminate or kill.
C33_NoSubprocessLeftRunning ==
    main = "exited" => chainlit # "alive"

\* C34: an agent-mode request reads its session's thread at its first pull,
\* leaves it as read while it streams, and on success stores it under its
\* session id as it was read, without any message of this request.
C34_AgentModeStoresThreadUnchanged ==
    [][\A r \in Requests :
          request'[r].mode = "agent" =>
              /\ (pc[r] = "accepted" /\ pc'[r] = "agent_stream")
                     => thread'[r] = GetThread(sessions, session_id'[r])
              /\ pc[r] = "agent_stream" => thread'[r] = thread[r]
              /\ (pc[r] = "agent_stream" /\ pc'[r] = "done_ok")
                     => /\ sessions'[session_id[r]] = thread[r]
                        /\ \A i \in 1..Len(thread[r]) : thread[r][i] # Message(r)]_vars

\* A chat request stored its message under "s1"; an agent-mode request of the
\* same session then answered with content and left the stored thread as it was.
C34_Witness ==
    /\ request[1].mode = "chat" /\ request[2].mode = "agent"
    /\ session_id[1] = "s1" /\ session_id[2] = "s1"
    /\ pc[1] = "done_ok" /\ pc[2] = "done_ok"
    /\ writer["s1"] = 2
    /\ Len(frames[2]) = 2
    /\ sessions["s1"] = <<Message(1)>>

\* C35: the frames of one response all carry one session id: the request's
\* when it supplied one, an id made by uuid4 otherwise.
C35_FramesCarryOneSessionId ==
    \A r \in Requests :
        /\ \A i, j \in 1..Len(frames[r]) : frames[r][i].session_id = frames[r][j].session_id
        /\ \A i \in 1..Len(frames[r]) :
               IF request[r].session_id # None
               THEN frames[r][i].session_id = request[r].session_id
               ELSE \E k \in 1..Len(UuidPool) : frames[r][i].session_id = UuidPool[k]

\* The numbers 1..n in order.
Counting(n) == [i \in 1..n |-> i]

\* What was delivered to each side is a run of the frames sent to it, in the
\* order sent and without repetition; and while a loop is running, the frames
\* delivered, the frame the loop holds and the frames waiting are all the
\* frames sent, in order.
RelayInOrder ==
    /\ chainlit_received = Counting(Len(chainlit_received))
    /\ Len(chainlit_received) <= client_count
    /\ client_received = Counting(Len(client_received))
    /\ Len(client_received) <= chainlit_count
    /\ to_chainlit \in {"receive", "send"} =>
           chainlit_received \o (IF to_chainlit = "send" THEN <<data>> ELSE <<>>)
               \o [i \in 1..Len(client_sent) |-> client_sent[i].n]
           = Counting(client_count)
    /\ from_chainlit \in {"next", "send"} =>
           client_received \o (IF from_chainlit = "send" THEN <<message>> ELSE <<>>)
               \o chainlit_sent
           = Counting(chainlit_count)

\* The n-th frame of the client is a text frame waiting for forward_to_chainlit.
TextWaiting(n) ==
    /\ to_chainlit \in {"receive", "send"}
    /\ \E i \in 1..Len(client_sent) : client_sent[i].n = n /\ client_sent[i].text

\* The n-th message of the UI process is waiting for forward_from_chainlit.
MessageWaiting(n) ==
    /\ from_chainlit \in {"next", "send"}
    /\ \E i \in 1..Len(chainlit_sent) : chainlit_sent[i] = n

====
